---------------------------- MODULE Spec2Model ----------------------------
(***************************************************************************)
(* A model of the FTP client of dwlnetnl/ftp: the reply reader, the        *)
(* command channel with its cancellation envelope, the passive address     *)
(* negotiation and the life cycle of a data transfer.                      *)
(*                                                                         *)
(* Text is a sequence of one-character strings.  The control connection is *)
(* a byte stream in each direction; a reply is read from it line by line,  *)
(* the way textproto.Reader.ReadLine and Client.response do.               *)
(***************************************************************************)
EXTENDS Integers, Sequences, FiniteSets, TLC

VARIABLES
    family,     \* c.conn.RemoteAddr().Network(): "tcp" or "tcp6"
    conn,       \* the control connection: "none" before Dial has made one,
                \* then "open", and "closed" once Close was called on it
    inbuf,      \* control connection, server to client: the unread bytes
    eof,        \* the control transport has failed or ended: no byte will follow
    outLines,   \* control connection, client to server: the lines written by
                \* PrintfLine that the server has not answered yet
    srvLast,    \* the reply the server sent last in answer to a command
    srvClosing, \* the data connection the server owes a closing reply for, or 0
    cancelled,  \* the cancellable context's Done channel is closed
    pc,         \* the caller's position: the operation and the step in it
    stage,      \* the caller's position inside sendCommand
    ctx,        \* the context of the running operation: "bg" (Done() is nil),
                \* "c" (with a cancel function) or "d" (with a deadline)
    arg,        \* the command of the running Do or transfer
    log,        \* what the running (or last) operation did, in order
    ret,        \* what the last operation returned
    bg,         \* the background sendCmd units started by sendCommand: those
                \* still running and those that ended during this operation
    data,       \* the data connections dialed so far, each "open" or "closed"
    stream,     \* the wrapped stream (transferConn) the caller holds, if any
    nOps,       \* operations started so far
    mockIn      \* the reader's test harness: what the mock transport was given

vars == <<family, conn, inbuf, eof, outLines, srvLast, srvClosing, cancelled,
          pc, stage, ctx, arg, log, ret, bg, data, stream, nOps, mockIn>>

(***************************************************************************)
(* Bounds of the model.                                                    *)
(***************************************************************************)
MaxOps == 2      \* operations called on one client
MaxUnits == 1    \* background units running at a time
MaxLines == 3    \* lines in the reader's mock transport

(***************************************************************************)
(* Characters and text.                                                    *)
(***************************************************************************)
CR == "\r"
LF == "\n"
SP == " "
CRLF == <<CR, LF>>

Digits == {"0", "1", "2", "3", "4", "5", "6", "7", "8", "9"}

DigitVal(c) ==
    CASE c = "0" -> 0 [] c = "1" -> 1 [] c = "2" -> 2 [] c = "3" -> 3
      [] c = "4" -> 4 [] c = "5" -> 5 [] c = "6" -> 6 [] c = "7" -> 7
      [] c = "8" -> 8 [] c = "9" -> 9

DigitChar(d) ==
    CASE d = 0 -> "0" [] d = 1 -> "1" [] d = 2 -> "2" [] d = 3 -> "3"
      [] d = 4 -> "4" [] d = 5 -> "5" [] d = 6 -> "6" [] d = 7 -> "7"
      [] d = 8 -> "8" [] d = 9 -> "9"

Drop(s, n) == SubSeq(s, n + 1, Len(s))
Take(s, n) == SubSeq(s, 1, n)

\* strings.HasPrefix
HasPrefix(s, p) == Len(s) >= Len(p) /\ Take(s, Len(p)) = p

AllDigits(s) == \A i \in 1..Len(s) : s[i] \in Digits

RECURSIVE DecimalValue(_)
DecimalValue(s) ==
    IF s = <<>> THEN 0
    ELSE 10 * DecimalValue(Take(s, Len(s) - 1)) + DigitVal(s[Len(s)])

\* strconv.Atoi: an optional sign, then one or more decimal digits.
Atoi(s) ==
    LET signed == s # <<>> /\ s[1] \in {"+", "-"}
        body == IF signed THEN Tail(s) ELSE s
    IN  IF body = <<>> \/ ~AllDigits(body)
        THEN [ok |-> FALSE, val |-> 0]
        ELSE [ok |-> TRUE,
              val |-> IF signed /\ s[1] = "-" THEN 0 - DecimalValue(body)
                      ELSE DecimalValue(body)]

RECURSIVE ItoaNat(_)
ItoaNat(n) ==
    IF n < 10 THEN <<DigitChar(n)>>
    ELSE ItoaNat(n \div 10) \o <<DigitChar(n % 10)>>

\* strconv.Itoa
Itoa(n) == IF n < 0 THEN <<"-">> \o ItoaNat(0 - n) ELSE ItoaNat(n)

\* strings.Join(lines, "\n")
RECURSIVE JoinLF(_)
JoinLF(lines) ==
    IF lines = <<>> THEN <<>>
    ELSE IF Len(lines) = 1 THEN lines[1]
    ELSE lines[1] \o <<LF>> \o JoinLF(Tail(lines))

(***************************************************************************)
(* Replies and errors.                                                     *)
(***************************************************************************)
Reply(code, msg) == [Code |-> code, Msg |-> msg]
NoReply == Reply(0, <<>>)

\* An error value: nil, a reply used as the error, or a named error.
Err(kind) == [kind |-> kind, reply |-> NoReply]
NilErr == Err("nil")
ReplyErr(r) == [kind |-> "reply", reply |-> r]

CodeNeedPassword == 331
CodePassive == 227
CodeExtendedPassive == 229

PositivePreliminary(r) == r.Code \div 100 = 1
PositiveComplete(r) == r.Code \div 100 = 2
PositiveIntermediate(r) == r.Code \div 100 = 3
Positive(r) == r.Code \div 100 \in {1, 2, 3}

(***************************************************************************)
(* The reply reader.                                                       *)
(***************************************************************************)
FirstLF(buf) == CHOOSE i \in 1..Len(buf) :
                    buf[i] = LF /\ \A j \in 1..(i - 1) : buf[j] # LF

\* textproto.Reader.ReadLine over the unread bytes: the line up to the first
\* "\n" with that "\n" and one "\r" before it dropped; at the end of the
\* stream the bytes left are the last line; with no whole line and the stream
\* still open the call blocks.
ReadLine(buf, ended) ==
    IF \E i \in 1..Len(buf) : buf[i] = LF THEN
        LET i == FirstLF(buf)
            raw == Take(buf, i - 1)
            line == IF raw # <<>> /\ raw[Len(raw)] = CR
                    THEN Take(raw, Len(raw) - 1) ELSE raw
        IN  [err |-> "nil", line |-> line, rest |-> Drop(buf, i)]
    ELSE IF ~ended THEN [err |-> "blocked", line |-> <<>>, rest |-> buf]
    ELSE IF buf = <<>> THEN [err |-> "EOF", line |-> <<>>, rest |-> buf]
    ELSE [err |-> "nil", line |-> buf, rest |-> <<>>]

\* The loop of Client.response over the lines of a multi-line reply: ReadMore
\* reads the next line, ReadMoreLine looks at the line read.
RECURSIVE ReadMore(_, _, _, _)
RECURSIVE ReadMoreLine(_, _, _, _)
ReadMoreLine(l, lines, ended, endPrefix) ==
    IF l.err # "nil" THEN [lines |-> lines, err |-> l.err, rest |-> l.rest]
    ELSE IF HasPrefix(l.line, endPrefix)
    THEN [lines |-> Append(lines, Drop(l.line, Len(endPrefix))),
          err |-> "nil", rest |-> l.rest]
    ELSE ReadMore(Append(lines, l.line), l.rest, ended, endPrefix)

ReadMore(lines, buf, ended, endPrefix) ==
    ReadMoreLine(ReadLine(buf, ended), lines, ended, endPrefix)

EndPrefix(code) == Itoa(code) \o <<SP>>

\* A mutant of MsgOf: the separator after the code is kept in the message.
MsgKeepSeparator(line) == Drop(line, 3)

\* line[4:]
MsgOf(line) == Drop(line, 4)

\* A mutant of IsSingleLine: whatever is not a hyphen passes for the space.
IsSingleLineLax(line) == line[4] # "-"

\* case ' '
IsSingleLine(line) == line[4] = SP

\* case '-'
IsMultiLine(line) == line[4] = "-"

\* Client.response returns no Reply.
NoResponse(err, rest) == [reply |-> NoReply, err |-> err, rest |-> rest]

\* A mutant of responseMulti: the lines read so far are dropped on an error.
responseMultiDropsLines(code, m, buf) ==
    IF m.err = "nil" THEN [reply |-> Reply(code, JoinLF(m.lines)), err |-> m.err,
                           rest |-> m.rest]
    ELSE NoResponse(m.err, IF m.err = "blocked" THEN buf ELSE m.rest)

\* Client.response after the loop over a multi-line reply has ended with m.
responseMulti(code, m, buf) ==
    IF m.err = "blocked" THEN NoResponse("blocked", buf)
    ELSE [reply |-> Reply(code, JoinLF(m.lines)), err |-> m.err, rest |-> m.rest]

\* Client.response after strconv.Atoi(line[:3]) has returned code.
responseCode(l, code, buf, ended) ==
    IF ~code.ok THEN NoResponse("atoi", l.rest)
    ELSE IF IsMultiLine(l.line)
    THEN responseMulti(code.val,
                       ReadMore(<<MsgOf(l.line)>>, l.rest, ended,
                                EndPrefix(code.val)),
                       buf)
    ELSE IF IsSingleLine(l.line)
    THEN [reply |-> Reply(code.val, MsgOf(l.line)), err |-> "nil", rest |-> l.rest]
    ELSE NoResponse("space", l.rest)

\* Client.response after its first ReadLine has returned l.
responseLine(l, buf, ended) ==
    IF l.err # "nil" THEN NoResponse(l.err, l.rest)
    ELSE IF Len(l.line) < 4 THEN NoResponse("short", l.rest)
    ELSE responseCode(l, Atoi(Take(l.line, 3)), buf, ended)

\* Client.response: reads one reply.  err is "nil", an I/O error ("EOF"), a
\* framing error ("short", "atoi", "space") or "blocked" when the call cannot
\* return yet; rest is what the call leaves unread.
response(buf, ended) == responseLine(ReadLine(buf, ended), buf, ended)

(***************************************************************************)
(* The address negotiator's parsers.                                       *)
(***************************************************************************)
\* The end of the longest run of digits that starts at i.
RECURSIVE DigitsEnd(_, _)
DigitsEnd(s, i) ==
    IF i <= Len(s) /\ s[i] \in Digits THEN DigitsEnd(s, i + 1) ELSE i

\* pasvRegexp matched at position i: n comma-separated runs of digits.
RECURSIVE MatchRuns(_, _, _)
MatchRuns(s, i, n) ==
    LET e == DigitsEnd(s, i)
        fail == [ok |-> FALSE, groups |-> <<>>]
    IN  IF e = i THEN fail
        ELSE IF n = 1 THEN [ok |-> TRUE, groups |-> <<SubSeq(s, i, e - 1)>>]
        ELSE IF e <= Len(s) /\ s[e] = ","
        THEN LET m == MatchRuns(s, e + 1, n - 1)
             IN  IF m.ok THEN [ok |-> TRUE,
                               groups |-> <<SubSeq(s, i, e - 1)>> \o m.groups]
                 ELSE fail
        ELSE fail

\* byte(n)
Byte(n) == n % 256

\* The largest int of a 64-bit build, 1<<63 - 1, in decimal.
MaxInt == <<"9", "2", "2", "3", "3", "7", "2", "0", "3", "6", "8",
           "5", "4", "7", "7", "5", "8", "0", "7">>

RECURSIVE StripZeros(_)
StripZeros(s) ==
    IF Len(s) > 1 /\ s[1] = "0" THEN StripZeros(Tail(s)) ELSE s

\* The decimal number s is greater than MaxInt: strconv.Atoi returns MaxInt
\* and a range error for it.
ExceedsMaxInt(s) ==
    LET t == StripZeros(s)
    IN  \/ Len(t) > Len(MaxInt)
        \/ /\ Len(t) = Len(MaxInt)
           /\ \E i \in 1..Len(t) :
                 /\ DigitVal(t[i]) > DigitVal(MaxInt[i])
                 /\ \A j \in 1..(i - 1) : t[j] = MaxInt[j]

\* The low 8 bits of the decimal number s, digit by digit.
RECURSIVE Low8(_)
Low8(s) ==
    IF s = <<>> THEN 0
    ELSE Byte(10 * Low8(Take(s, Len(s) - 1)) + DigitVal(s[Len(s)]))

\* A mutant of AtoiByte: a number above 255 becomes 255.
AtoiByteSaturated(s) ==
    IF ExceedsMaxInt(s) \/ Len(StripZeros(s)) > 3 THEN 255
    ELSE IF DecimalValue(StripZeros(s)) > 255 THEN 255
    ELSE DecimalValue(StripZeros(s))

\* n, _ := strconv.Atoi(s); numbers[i] = byte(n): the range error is dropped
\* and the int cut to its low 8 bits.
AtoiByte(s) == IF ExceedsMaxInt(s) THEN Low8(MaxInt) ELSE Low8(s)

\* A mutant of PasvPort: the two port numbers the other way round.
PasvPortSwapped(hi, lo) == lo * 256 + hi

\* int(numbers[5])<<8 | int(numbers[6])
PasvPort(hi, lo) == hi * 256 + lo

\* parsePasvReply: the leftmost match of pasvRegexp, each number cut to a byte.
parsePasvReply(msg) ==
    IF \E i \in 1..Len(msg) : MatchRuns(msg, i, 6).ok THEN
        LET i == CHOOSE i \in 1..Len(msg) :
                     /\ MatchRuns(msg, i, 6).ok
                     /\ \A j \in 1..(i - 1) : ~MatchRuns(msg, j, 6).ok
            g == MatchRuns(msg, i, 6).groups
            n == [k \in 1..6 |-> AtoiByte(g[k])]
        IN  [err |-> "nil",
             addr |-> [ip |-> <<n[1], n[2], n[3], n[4]>>,
                       port |-> PasvPort(n[5], n[6])]]
    ELSE [err |-> "pasv", addr |-> [ip |-> <<>>, port |-> 0]]

epsvStart == <<"(", "|", "|", "|">>
epsvEnd == <<"|", ")">>

\* A mutant of LastIndex: the first place of sub in s.
FirstIndex(s, sub) ==
    LET at == {i \in 0..(Len(s) - Len(sub)) : SubSeq(s, i + 1, i + Len(sub)) = sub}
    IN  IF at = {} THEN -1 ELSE CHOOSE i \in at : \A j \in at : i <= j

\* strings.LastIndex, counting from 0 as Go does; -1 when sub is not in s.
LastIndex(s, sub) ==
    LET at == {i \in 0..(Len(s) - Len(sub)) : SubSeq(s, i + 1, i + Len(sub)) = sub}
    IN  IF at = {} THEN -1 ELSE CHOOSE i \in at : \A j \in at : j <= i

\* A mutant of Misordered: only a missing end delimiter is refused.
MisorderedLax(start, end) == end = -1

\* parseEpsvReply, the test of the end delimiter's place.
Misordered(start, end) == end = -1 \/ end <= start

\* parseEpsvReply
parseEpsvReply(msg) ==
    LET start0 == LastIndex(msg, epsvStart)
        start == start0 + Len(epsvStart)
        end == LastIndex(msg, epsvEnd)
    IN  IF start0 = -1 THEN [err |-> "epsv", port |-> 0]
        ELSE IF Misordered(start, end) THEN [err |-> "epsv", port |-> 0]
        ELSE LET n == Atoi(SubSeq(msg, start + 1, end))
             IN  IF n.ok THEN [err |-> "nil", port |-> n.val]
                 ELSE [err |-> "atoi", port |-> 0]

\* The control peer's IP, c.conn.RemoteAddr().(*net.TCPAddr).IP
PeerIP == <<"peer">>
NoAddr == [ip |-> <<>>, port |-> 0]

(***************************************************************************)
(* What an operation returns: the reply, the error and whether a wrapped   *)
(* stream came with it; n is the byte count of a stream's Read or Write.   *)
(***************************************************************************)
Ret(op, reply, err, hasStream) ==
    [op |-> op, reply |-> reply, err |-> err, stream |-> hasStream, n |-> 0]
NoRet == Ret("none", NoReply, NilErr, FALSE)

NoMock == [lines |-> <<>>, term |-> <<>>, closed |-> TRUE]

\* transferConn{conn, c, ctx}: rwc is the data connection's place in data (0:
\* the caller holds no stream yet); used records that bytes were read or
\* written.  The caller keeps a stream it has closed until it gets the next.
Stream(rwc, c, used) == [rwc |-> rwc, ctx |-> c, used |-> used]
NoStream == Stream(0, "bg", FALSE)

\* The arguments of the running operation: the command and the data type;
\* quiet records whether the control connection was at rest at the call.
Arg(cmd, typ) == [cmd |-> cmd, typ |-> typ, quiet |-> FALSE]
NoArg == Arg(<<>>, "-")

\* One entry of log: a sendCommand call or return, a PrintfLine ("write",
\* with the bytes written), a response() call ("read"), an address obtained, a
\* dial, or a Close of the data transport ("dataClose").
Ev(ev, cmd, reply, err, addr) ==
    [ev |-> ev, cmd |-> cmd, reply |-> reply, err |-> err, addr |-> addr]
EvCall(cmd) == Ev("call", cmd, NoReply, NilErr, NoAddr)
EvWrite(bytes, err) == Ev("write", bytes, NoReply, err, NoAddr)
EvRead(reply, err) == Ev("read", <<>>, reply, err, NoAddr)
EvReturn(reply, err) == Ev("return", <<>>, reply, err, NoAddr)
EvDial(addr, err) == Ev("dial", <<>>, NoReply, err, addr)
EvDataClose(err) == Ev("dataClose", <<>>, NoReply, err, NoAddr)
EvAddr(ev, addr, err) == Ev(ev, <<>>, NoReply, err, addr)
EvConnClose(err) == Ev("connClose", <<>>, NoReply, err, NoAddr)
EvDialContext(network, err) == Ev("DialContext", network, NoReply, err, NoAddr)
EvIO(op, err) == Ev("rwc." \o op, <<>>, NoReply, err, NoAddr)

(***************************************************************************)
(* The commands of the client.                                             *)
(***************************************************************************)
CmdUSER == <<"U", "S", "E", "R", SP, "a">>
CmdPASS == <<"P", "A", "S", "S", SP, "b">>
CmdTYPE(t) == <<"T", "Y", "P", "E", SP, t>>
CmdPASV == <<"P", "A", "S", "V">>
CmdEPSV == <<"E", "P", "S", "V">>
CmdQUIT == <<"Q", "U", "I", "T">>
DoCmds == {<<"N", "O", "O", "P">>, <<"S", "Y", "S", "T">>}
XferCmds == {<<"L", "I", "S", "T">>}
DataTypes == {"A", "I"}

\* A mutant of PrintfLine: the line is ended by a bare "\n".
PrintfLineLF(cmd) == cmd \o <<LF>>

\* c.proto.PrintfLine("%s", command)
PrintfLine(cmd) == cmd \o CRLF

(***************************************************************************)
(* The FTP server and the network: the environment of the client.          *)
(***************************************************************************)
PasvText == <<"1", ",", "2", ",", "3", ",", "4", ",", "0", ",", "7">>
EpsvText == <<"(", "|", "|", "|", "8", "|", ")">>

\* The replies the server may give to a command line.
ServerReplies(line) ==
    LET cmd == Take(line, Len(line) - 2)
    IN  IF cmd \in DoCmds
          THEN {Reply(200, cmd), Reply(500, cmd), Reply(200, <<"m", LF>> \o cmd)}
        ELSE IF cmd = CmdUSER
          THEN {Reply(331, cmd), Reply(230, cmd), Reply(530, cmd)}
        ELSE IF cmd = CmdPASS THEN {Reply(230, cmd), Reply(530, cmd)}
        ELSE IF cmd \in {CmdTYPE(t) : t \in DataTypes}
          THEN {Reply(200, cmd), Reply(500, cmd)}
        ELSE IF cmd = CmdPASV
          THEN {Reply(227, PasvText), Reply(227, cmd), Reply(500, cmd)}
        ELSE IF cmd = CmdEPSV THEN {Reply(229, EpsvText), Reply(500, cmd)}
        ELSE IF cmd \in XferCmds
          THEN {Reply(150, cmd), Reply(250, cmd), Reply(350, cmd),
                Reply(450, cmd), Reply(550, cmd)}
        ELSE IF cmd = CmdQUIT THEN {Reply(221, cmd), Reply(500, cmd)}
        ELSE {Reply(500, cmd)}

ClosingReplies == {Reply(226, <<"e", "n", "d">>), Reply(426, <<"e", "n", "d">>)}

\* The bytes of a reply on the wire: a message with line breaks goes out as a
\* multi-line reply, "<code>-" before its first line and "<code> " before its
\* last one.
RECURSIVE WireLines(_, _)
WireLines(code, msg) ==
    IF \E i \in 1..Len(msg) : msg[i] = LF
    THEN LET i == FirstLF(msg)
         IN  Take(msg, i - 1) \o CRLF \o
             (IF \E j \in (i + 1)..Len(msg) : msg[j] = LF THEN <<>>
              ELSE Itoa(code) \o <<SP>>) \o WireLines(code, Drop(msg, i))
    ELSE msg \o CRLF

Wire(r) ==
    Itoa(r.Code) \o
    (IF \E i \in 1..Len(r.Msg) : r.Msg[i] = LF THEN <<"-">> ELSE <<SP>>) \o
    WireLines(r.Code, r.Msg)

\* The server answers the next command line it has not answered yet.
ServerReply ==
    /\ ~eof
    /\ outLines # <<>>
    /\ \E r \in ServerReplies(Head(outLines)) :
          /\ inbuf' = inbuf \o Wire(r)
          /\ srvLast' = r
          /\ srvClosing' = IF r.Code = 150 /\ data # <<>> THEN Len(data)
                           ELSE srvClosing
    /\ outLines' = Tail(outLines)
    /\ UNCHANGED <<family, conn, eof, cancelled, pc, stage, ctx, arg, log,
                   ret, bg, data, stream, nOps, mockIn>>

\* The server sends the closing reply of a transfer it accepted once the data
\* connection is closed.
ServerClosing ==
    /\ ~eof
    /\ srvClosing # 0
    /\ data[srvClosing] = "closed"
    /\ \E r \in ClosingReplies : inbuf' = inbuf \o Wire(r)
    /\ srvClosing' = 0
    /\ UNCHANGED <<family, conn, eof, outLines, srvLast, cancelled, pc, stage,
                   ctx, arg, log, ret, bg, data, stream, nOps, mockIn>>

\* The control transport fails: nothing more arrives.
Break ==
    /\ ~eof
    /\ eof' = TRUE
    /\ UNCHANGED <<family, conn, inbuf, outLines, srvLast, srvClosing,
                   cancelled, pc, stage, ctx, arg, log, ret, bg, data, stream,
                   nOps, mockIn>>

\* The cancellable context is cancelled (or its deadline passes).
Cancel ==
    /\ ~cancelled
    /\ cancelled' = TRUE
    /\ UNCHANGED <<family, conn, inbuf, eof, outLines, srvLast, srvClosing,
                   pc, stage, ctx, arg, log, ret, bg, data, stream, nOps, mockIn>>

(***************************************************************************)
(* The command channel: sendCommand and sendCmd.                           *)
(***************************************************************************)
\* The command the running operation sends at its position.
CurCmd ==
    CASE pc = "Do" -> arg.cmd
      [] pc = "Quit" -> CmdQUIT
      [] pc = "Login.USER" -> CmdUSER
      [] pc = "Login.PASS" -> CmdPASS
      [] pc = "transfer.TYPE" -> CmdTYPE(arg.typ)
      [] pc = "transfer.EPSV" -> CmdEPSV
      [] pc = "transfer.PASV" -> CmdPASV
      [] pc = "transfer.CMD" -> arg.cmd

Contexts == {"bg", "c", "d"}

\* ctx.Err() of a context whose Done channel is closed: "c" is a context
\* with a cancel function, "d" one with a deadline.
ctxErr(c) == Err(IF c = "d" THEN "deadline" ELSE "canceled")

\* A background unit: sendCmd run by "go c.sendCmd(command)".
Unit(cmd, upc, reply, err, writes, reads) ==
    [cmd |-> cmd, pc |-> upc, reply |-> reply, err |-> err,
     writes |-> writes, reads |-> reads]

\* A mutant of NewUnit: the unit is never run.
NewUnitNotRun(cmd) == Unit(cmd, "done", NoReply, NilErr, 0, 0)

\* go c.sendCmd(command)
NewUnit(cmd) == Unit(cmd, "write", NoReply, NilErr, 0, 0)

\* sendCommand, the context not cancellable: sendCmd's PrintfLine, run by the
\* caller.  The write may fail once the transport has failed.
SendWrite ==
    /\ stage = "start" /\ ctx = "bg"
    /\ \/ /\ outLines' = Append(outLines, PrintfLine(CurCmd))
          /\ stage' = "read"
          /\ log' = Append(log, EvWrite(PrintfLine(CurCmd), NilErr))
       \/ /\ eof
          /\ stage' = "werr"
          /\ log' = Append(log, EvWrite(<<>>, Err("io")))
          /\ UNCHANGED outLines
    /\ UNCHANGED <<family, conn, inbuf, eof, srvLast, srvClosing, cancelled,
                   pc, ctx, arg, ret, bg, data, stream, nOps, mockIn>>

\* sendCommand, the context cancellable: the unit is started and the caller
\* goes to the select.
SendSpawn ==
    /\ stage = "start" /\ ctx # "bg"
    /\ bg' = Append(bg, NewUnit(CurCmd))
    /\ stage' = "select"
    /\ UNCHANGED <<family, conn, inbuf, eof, outLines, srvLast, srvClosing,
                   cancelled, pc, ctx, arg, log, ret, data, stream, nOps, mockIn>>

\* A background unit's PrintfLine.
BgWrite(i) ==
    /\ bg[i].pc = "write"
    /\ \/ /\ outLines' = Append(outLines, PrintfLine(bg[i].cmd))
          /\ bg' = [bg EXCEPT ![i].pc = "read", ![i].writes = @ + 1]
       \/ /\ eof
          /\ bg' = [bg EXCEPT ![i].pc = "done", ![i].err = Err("io")]
          /\ UNCHANGED outLines
    /\ UNCHANGED <<family, conn, inbuf, eof, srvLast, srvClosing, cancelled,
                   pc, stage, ctx, arg, log, ret, data, stream, nOps, mockIn>>

\* A background unit's response().  Its result goes nowhere: nothing sends on
\* the channel sendCommand waits on.
BgRead(i) ==
    /\ bg[i].pc = "read"
    /\ \E r \in {response(inbuf, eof)} :
           /\ r.err # "blocked"
           /\ inbuf' = r.rest
           /\ bg' = [bg EXCEPT ![i].pc = "done", ![i].reply = r.reply,
                               ![i].err = Err(r.err), ![i].reads = @ + 1]
    /\ UNCHANGED <<family, conn, eof, outLines, srvLast, srvClosing, cancelled,
                   pc, stage, ctx, arg, log, ret, data, stream, nOps, mockIn>>

\* case <-ctx.Done(): return Reply{}, ctx.Err()
SelectCancelled == [reply |-> NoReply, err |-> ctxErr(ctx), rest |-> inbuf]

\* sendCommand can return: the caller's own response() has a reply or an
\* error, its write failed, or it waits in the select and the context is
\* cancelled (the result channel never delivers).
SendReady ==
    \/ stage = "read" /\ response(inbuf, eof).err # "blocked"
    \/ stage = "werr"
    \/ stage = "select" /\ cancelled

\* What sendCommand returns then, and what it leaves unread.
SendResult ==
    CASE stage = "read" ->
           LET r == response(inbuf, eof)
           IN  [reply |-> r.reply, err |-> Err(r.err), rest |-> r.rest]
      [] stage = "werr" -> [reply |-> NoReply, err |-> Err("io"), rest |-> inbuf]
      [] stage = "select" -> SelectCancelled

\* What the return adds to log.
SendLog(r) ==
    IF stage = "read" THEN <<EvRead(r.reply, r.err), EvReturn(r.reply, r.err)>>
    ELSE <<EvReturn(r.reply, r.err)>>

\* The control connection is at rest: nothing unread, nothing unanswered, no
\* unit running and no closing reply on its way.
Quiescent ==
    /\ inbuf = <<>> /\ outLines = <<>>
    /\ \A i \in DOMAIN bg : bg[i].pc = "done"
    /\ srvClosing = 0 \/ data[srvClosing] = "open"

Running(u) == u.pc # "done"

\* An operation starts: its first sendCommand is called.  ret and log are
\* those of the new operation from here on.  With a cancellable context the
\* call starts a background unit.
Begin(op, c, a, cmd) ==
    /\ pc = "idle"
    /\ nOps < MaxOps
    /\ conn = "open"
    /\ c # "bg" => Len(SelectSeq(bg, Running)) < MaxUnits
    /\ nOps' = nOps + 1
    /\ pc' = op
    /\ stage' = "start"
    /\ ctx' = c
    /\ arg' = [a EXCEPT !.quiet = Quiescent]
    /\ log' = <<EvCall(cmd)>>
    /\ ret' = NoRet
    /\ bg' = SelectSeq(bg, Running)

\* An operation returns.
Return(r, l) ==
    /\ pc' = "idle"
    /\ stage' = "-"
    /\ ret' = r
    /\ log' = l

\* The operation goes on to its next sendCommand.
Goto(next, cmd, l) ==
    /\ pc' = next
    /\ stage' = "start"
    /\ log' = Append(l, EvCall(cmd))
    /\ UNCHANGED ret

(***************************************************************************)
(* Do and Login.                                                           *)
(***************************************************************************)
CallDo ==
    /\ \E c \in {"bg", "c"}, cmd \in DoCmds : Begin("Do", c, Arg(cmd, "-"), cmd)
    /\ UNCHANGED <<family, conn, inbuf, eof, outLines, srvLast, srvClosing,
                   cancelled, data, stream, mockIn>>

DoReturn ==
    /\ pc = "Do" /\ SendReady
    /\ \E r \in {SendResult} :
           /\ inbuf' = r.rest
           /\ Return(Ret("Do", r.reply, r.err, FALSE), log \o SendLog(r))
    /\ UNCHANGED <<family, conn, eof, outLines, srvLast, srvClosing, cancelled,
                   ctx, arg, bg, data, stream, nOps, mockIn>>

CallLogin ==
    /\ \E c \in {"bg", "c"} : Begin("Login.USER", c, NoArg, CmdUSER)
    /\ UNCHANGED <<family, conn, inbuf, eof, outLines, srvLast, srvClosing,
                   cancelled, data, stream, mockIn>>

\* if !reply.PositiveComplete() { return reply }; return nil
LoginResult(reply) ==
    IF ~PositiveComplete(reply) THEN Ret("Login", NoReply, ReplyErr(reply), FALSE)
    ELSE Ret("Login", NoReply, NilErr, FALSE)

\* A mutant of NeedsPassword: PASS follows every reply that is not a success.
NeedsPasswordLax(reply) == ~PositiveComplete(reply)

\* if reply.Code == CodeNeedPassword
NeedsPassword(reply) == reply.Code = CodeNeedPassword

LoginUserReturn ==
    /\ pc = "Login.USER" /\ SendReady
    /\ \E r \in {SendResult} :
       LET l == log \o SendLog(r)
       IN  /\ inbuf' = r.rest
           /\ IF r.err # NilErr
                THEN Return(Ret("Login", NoReply, r.err, FALSE), l)
              ELSE IF NeedsPassword(r.reply) THEN Goto("Login.PASS", CmdPASS, l)
              ELSE Return(LoginResult(r.reply), l)
    /\ UNCHANGED <<family, conn, eof, outLines, srvLast, srvClosing, cancelled,
                   ctx, arg, bg, data, stream, nOps, mockIn>>

LoginPassReturn ==
    /\ pc = "Login.PASS" /\ SendReady
    /\ \E r \in {SendResult} :
       LET l == log \o SendLog(r)
       IN  /\ inbuf' = r.rest
           /\ IF r.err # NilErr
                THEN Return(Ret("Login", NoReply, r.err, FALSE), l)
              ELSE Return(LoginResult(r.reply), l)
    /\ UNCHANGED <<family, conn, eof, outLines, srvLast, srvClosing, cancelled,
                   ctx, arg, bg, data, stream, nOps, mockIn>>

(***************************************************************************)
(* Quit and Close.                                                         *)
(***************************************************************************)
CallQuit ==
    /\ \E c \in Contexts : Begin("Quit", c, NoArg, CmdQUIT)
    /\ UNCHANGED <<family, conn, inbuf, eof, outLines, srvLast, srvClosing,
                   cancelled, data, stream, mockIn>>

\* What c.proto.Close() may return.
CloseResults == {NilErr, Err("close")}

\* A mutant of QuitCloses: the connection is closed after a sent QUIT only.
QuitClosesAfterReplyOnly(err) == err = NilErr

\* Quit, after sendCommand: c.Close() is called when the error is
\* context.Canceled or context.DeadlineExceeded and when there is none.
QuitCloses(err) == err.kind \in {"canceled", "deadline"} \/ err = NilErr

\* Quit returns.  Close ends the transport: nothing is read after it.
QuitReturn ==
    /\ pc = "Quit" /\ SendReady
    /\ \E r \in {SendResult} :
           /\ inbuf' = r.rest
           /\ IF QuitCloses(r.err)
              THEN \E e \in CloseResults :
                     /\ conn' = "closed"
                     /\ eof' = TRUE
                     /\ Return(Ret("Quit", NoReply, e, FALSE),
                               (log \o SendLog(r)) \o <<EvConnClose(e)>>)
              ELSE /\ Return(Ret("Quit", NoReply, r.err, FALSE), log \o SendLog(r))
                   /\ UNCHANGED <<conn, eof>>
    /\ UNCHANGED <<family, outLines, srvLast, srvClosing, cancelled,
                   ctx, arg, bg, data, stream, nOps, mockIn>>

(***************************************************************************)
(* Dial and NewClient.                                                     *)
(***************************************************************************)
NetTcp == <<"t", "c", "p">>
\* The TCP networks of net.Dialer, and the networks it knows.
TcpNetworks == {NetTcp, NetTcp \o <<"4">>, NetTcp \o <<"6">>}
DialerNetworks == TcpNetworks \cup {<<"u", "d", "p">>, <<"u", "n", "i", "x">>}
\* The network names a caller may pass to Dial.
Networks == DialerNetworks \cup {<<>>, NetTcp \o <<"x">>, <<"T", "C", "P">>}

\* The welcome the server sends on a new connection, if it sends one.
Welcomes == {Reply(220, <<"h", "i">>), Reply(421, <<"b", "u", "s", "y">>)}

\* Dial, the test of the network name: strings.HasPrefix(network, "tcp")
OnlyTcp(network) == HasPrefix(network, NetTcp)

\* What d.DialContext(ctx, network, addr) may give: no error (a connection)
\* or an error.  A name net.Dialer does not know is refused before any
\* connection is tried; a context that is done already gives its error.
DialContextResults(network, c) ==
    IF network \notin DialerNetworks THEN {Err("unknown network")}
    ELSE IF c # "bg" /\ cancelled THEN {ctxErr(c)}
    ELSE {NilErr, Err("io")}

\* Dial up to the welcome read: the test of the network name, DialContext
\* and NewClient's struct.  A TCP connection reports "tcp" as the network of
\* its remote address.
CallDial ==
    /\ pc = "nil" /\ conn = "none"
    /\ \E network \in Networks, c \in Contexts :
          /\ ctx' = c
          /\ arg' = Arg(network, "-")
          /\ IF ~OnlyTcp(network)
             THEN /\ ret' = Ret("Dial", NoReply, Err("only TCP"), FALSE)
                  /\ log' = <<>>
                  /\ UNCHANGED <<family, conn, inbuf, pc>>
             ELSE \E e \in DialContextResults(network, c) :
                    /\ log' = <<EvDialContext(network, e)>>
                    /\ IF e # NilErr
                       THEN /\ ret' = Ret("Dial", NoReply, e, FALSE)
                            /\ UNCHANGED <<family, conn, inbuf, pc>>
                       ELSE /\ ret' = NoRet
                            /\ family' = "tcp"
                            /\ conn' = "open"
                            /\ pc' = "Dial.welcome"
                            /\ inbuf' \in {Wire(w) : w \in Welcomes} \cup {<<>>}
    /\ UNCHANGED <<eof, outLines, srvLast, srvClosing, cancelled, stage,
                   bg, data, stream, nOps, mockIn>>

\* readWelcome returns: the welcome reply or the error of its read, or, under
\* a cancellable context that is done, the context's error.  NewClient gives
\* no Client when there is an error.
WelcomeReturn ==
    /\ pc = "Dial.welcome"
    /\ \/ \E r \in {response(inbuf, eof)} :
            /\ r.err # "blocked"
            /\ inbuf' = r.rest
            /\ log' = Append(log, EvRead(r.reply, Err(r.err)))
            /\ IF r.err = "nil"
               THEN pc' = "idle" /\ ret' = Ret("Dial", r.reply, NilErr, FALSE)
               ELSE pc' = "failed" /\ ret' = Ret("Dial", NoReply, Err(r.err), FALSE)
       \/ /\ ctx # "bg" /\ cancelled
          /\ pc' = "failed"
          /\ ret' = Ret("Dial", NoReply, ctxErr(ctx), FALSE)
          /\ UNCHANGED <<inbuf, log>>
    /\ UNCHANGED <<family, conn, eof, outLines, srvLast, srvClosing, cancelled,
                   stage, ctx, arg, bg, data, stream, nOps, mockIn>>

(***************************************************************************)
(* The data channel: transfer (Text, Binary) and the wrapped stream.       *)
(***************************************************************************)
\* obtainPassiveAddress6 once its sendCommand("EPSV") has returned r.
obtainPassiveAddress6(r) ==
    IF r.err # NilErr THEN [addr |-> NoAddr, err |-> r.err]
    ELSE IF r.reply.Code # CodeExtendedPassive
    THEN [addr |-> NoAddr, err |-> ReplyErr(r.reply)]
    ELSE LET p == parseEpsvReply(r.reply.Msg)
         IN  IF p.err # "nil" THEN [addr |-> NoAddr, err |-> Err(p.err)]
             ELSE [addr |-> [ip |-> PeerIP, port |-> p.port], err |-> NilErr]

\* obtainPassiveAddress4 once its sendCommand("PASV") has returned r.
obtainPassiveAddress4(r) ==
    IF r.err # NilErr THEN [addr |-> NoAddr, err |-> r.err]
    ELSE IF r.reply.Code # CodePassive
    THEN [addr |-> NoAddr, err |-> ReplyErr(r.reply)]
    ELSE LET p == parsePasvReply(r.reply.Msg)
         IN  [addr |-> p.addr, err |-> Err(p.err)]

\* obtainPassiveAddress: on "tcp6" obtainPassiveAddress6 is called first.
FirstNegotiation == IF family = "tcp6" THEN "transfer.EPSV" ELSE "transfer.PASV"
FirstNegotiationCmd == IF family = "tcp6" THEN CmdEPSV ELSE CmdPASV

CallTransfer ==
    /\ IF stream = NoStream THEN TRUE ELSE data[stream.rwc] = "closed"
    /\ \E c \in {"bg", "c"}, cmd \in XferCmds, t \in DataTypes :
          Begin("transfer.TYPE", c, Arg(cmd, t), CmdTYPE(t))
    /\ UNCHANGED <<family, conn, inbuf, eof, outLines, srvLast, srvClosing,
                   cancelled, data, stream, mockIn>>

TransferFails(err) == Ret("transfer", NoReply, err, FALSE)

\* A mutant of TypeRefused: the reply to TYPE is not looked at.
TypeRefusedNever(reply) == FALSE

\* transfer, the test of the reply to TYPE: !reply.PositiveComplete()
TypeRefused(reply) == ~PositiveComplete(reply)

\* The reply to "TYPE <A|I>".
TypeReturn ==
    /\ pc = "transfer.TYPE" /\ SendReady
    /\ \E r \in {SendResult} :
       LET l == log \o SendLog(r)
       IN  /\ inbuf' = r.rest
           /\ IF r.err # NilErr THEN Return(TransferFails(r.err), l)
              ELSE IF TypeRefused(r.reply)
                THEN Return(TransferFails(ReplyErr(r.reply)), l)
              ELSE Goto(FirstNegotiation, FirstNegotiationCmd, l)
    /\ UNCHANGED <<family, conn, eof, outLines, srvLast, srvClosing, cancelled,
                   ctx, arg, bg, data, stream, nOps, mockIn>>

\* obtainPassiveAddress on "tcp6": what obtainPassiveAddress6 returns is
\* dropped and obtainPassiveAddress4 is called.
EpsvReturn ==
    /\ pc = "transfer.EPSV" /\ SendReady
    /\ \E r \in {SendResult} : \E a \in {obtainPassiveAddress6(r)} :
       LET l == (log \o SendLog(r)) \o <<EvAddr("addr6", a.addr, a.err)>>
       IN  /\ inbuf' = r.rest
           /\ Goto("transfer.PASV", CmdPASV, l)
    /\ UNCHANGED <<family, conn, eof, outLines, srvLast, srvClosing, cancelled,
                   ctx, arg, bg, data, stream, nOps, mockIn>>

\* obtainPassiveAddress4 returns and openPassive dials the address.  A dial
\* may fail, and fails when its context is cancelled already.
PasvReturn ==
    /\ pc = "transfer.PASV" /\ SendReady
    /\ \E r \in {SendResult} : \E a \in {obtainPassiveAddress4(r)} :
       LET l == (log \o SendLog(r)) \o <<EvAddr("addr", a.addr, a.err)>>
       IN  /\ inbuf' = r.rest
           /\ IF a.err # NilErr
                THEN Return(TransferFails(a.err), l) /\ UNCHANGED data
              ELSE \/ /\ ~(ctx # "bg" /\ cancelled)
                      /\ data' = Append(data, "open")
                      /\ Goto("transfer.CMD", arg.cmd,
                              Append(l, EvDial(a.addr, NilErr)))
                   \/ /\ UNCHANGED data
                      /\ Return(TransferFails(Err("dial")),
                                Append(l, EvDial(a.addr, Err("dial"))))
    /\ UNCHANGED <<family, conn, eof, outLines, srvLast, srvClosing, cancelled,
                   ctx, arg, bg, stream, nOps, mockIn>>

\* defer func(conn io.Closer) { if err != nil { conn.Close() } }(conn): err is
\* transfer's variable err when it returns.
DeferredClose(err) == err # NilErr

\* A mutant of CmdRefused: only a completion reply is accepted.
CmdRefusedUnlessComplete(reply) == ~PositiveComplete(reply)

\* transfer, the test of the reply to the transfer command: !reply.Positive()
CmdRefused(reply) == ~Positive(reply)

\* The reply to the transfer command.  A reply that is not positive is
\* returned as the error with the variable err left nil.
CmdReturn ==
    /\ pc = "transfer.CMD" /\ SendReady
    /\ \E r \in {SendResult} :
       LET l == log \o SendLog(r)
           lc == IF DeferredClose(r.err) THEN Append(l, EvDataClose(NilErr)) ELSE l
       IN  /\ inbuf' = r.rest
           /\ data' = IF DeferredClose(r.err)
                      THEN [data EXCEPT ![Len(data)] = "closed"] ELSE data
           /\ IF r.err # NilErr
                THEN Return(TransferFails(r.err), lc) /\ UNCHANGED stream
              ELSE IF CmdRefused(r.reply)
                THEN Return(TransferFails(ReplyErr(r.reply)), lc) /\ UNCHANGED stream
              ELSE /\ Return(Ret("transfer", r.reply, NilErr, TRUE), lc)
                   /\ stream' = Stream(Len(data), ctx, FALSE)
    /\ UNCHANGED <<family, conn, eof, outLines, srvLast, srvClosing, cancelled,
                   ctx, arg, bg, nOps, mockIn>>

\* A mutant of CallClose: the reply is read after a failed Close as well.
CallCloseAlwaysReads ==
    /\ pc = "idle" /\ stream # NoStream /\ data[stream.rwc] = "open"
    /\ data' = [data EXCEPT ![stream.rwc] = "closed"]
    /\ bg' = SelectSeq(bg, Running)
    /\ arg' = [NoArg EXCEPT !.quiet = Quiescent]
    /\ pc' = "Close.read"
    /\ ret' = NoRet
    /\ \E e \in {NilErr, Err("io")} : log' = <<EvDataClose(e)>>
    /\ UNCHANGED <<family, conn, inbuf, eof, outLines, srvLast, srvClosing,
                   cancelled, stage, ctx, stream, nOps, mockIn>>

\* transferConn.Close: tc.rwc.Close(), which may fail; on failure Close
\* returns the error at once.
CallClose ==
    /\ pc = "idle" /\ stream # NoStream /\ data[stream.rwc] = "open"
    /\ data' = [data EXCEPT ![stream.rwc] = "closed"]
    /\ bg' = SelectSeq(bg, Running)
    /\ arg' = [NoArg EXCEPT !.quiet = Quiescent]
    /\ \/ /\ pc' = "Close.read"
          /\ log' = <<EvDataClose(NilErr)>>
          /\ ret' = NoRet
       \/ /\ pc' = "idle"
          /\ log' = <<EvDataClose(Err("io"))>>
          /\ ret' = Ret("Close", NoReply, Err("io"), FALSE)
    /\ UNCHANGED <<family, conn, inbuf, eof, outLines, srvLast, srvClosing,
                   cancelled, stage, ctx, stream, nOps, mockIn>>

\* A mutant of CloseResult: the reply read at Close is not looked at.
CloseResultIgnoresReply(r) ==
    IF r.err # "nil" THEN Err(r.err) ELSE NilErr

\* transferConn.Close after tc.c.readResponse() has returned r.
CloseResult(r) ==
    IF r.err # "nil" THEN Err(r.err)
    ELSE IF ~PositiveComplete(r.reply) THEN ReplyErr(r.reply)
    ELSE NilErr

\* transferConn.Close: the reply read on the control connection.
CloseRead ==
    /\ pc = "Close.read"
    /\ \E r \in {response(inbuf, eof)} :
           /\ r.err # "blocked"
           /\ inbuf' = r.rest
           /\ ret' = Ret("Close", NoReply, CloseResult(r), FALSE)
           /\ log' = Append(log, EvRead(r.reply, Err(r.err)))
    /\ pc' = "idle"
    /\ UNCHANGED <<family, conn, eof, outLines, srvLast, srvClosing, cancelled,
                   stage, ctx, arg, bg, data, stream, nOps, mockIn>>

\* What one Read or Write of the data transport gives: some bytes, or no byte
\* and an error.
TransportResults == {[n |-> 1, err |-> NilErr], [n |-> 0, err |-> Err("io")]}

\* A mutant of DoneFired: the select always takes its default case.
DoneNeverFired(tc) == FALSE

\* transferConn.Read and Write, the test of the context: Done() is not nil
\* and the select finds the Done channel closed.
DoneFired(tc) == tc.ctx # "bg" /\ cancelled

\* transferConn.Read and transferConn.Write: the call goes to the data
\* transport unless the stream's context is cancelled already.
StreamIO ==
    /\ pc = "idle" /\ stream # NoStream /\ data[stream.rwc] = "open"
    /\ \E op \in {"Read", "Write"} :
          IF DoneFired(stream)
          THEN /\ ret' = [Ret(op, NoReply, ctxErr(stream.ctx), FALSE)
                            EXCEPT !.n = 0]
               /\ log' = <<>>
               /\ UNCHANGED stream
          ELSE \E t \in TransportResults :
                 /\ ret' = [Ret(op, NoReply, t.err, FALSE) EXCEPT !.n = t.n]
                 /\ log' = <<EvIO(op, t.err)>>
                 /\ stream' = [stream EXCEPT !.used = TRUE]
    /\ UNCHANGED <<family, conn, inbuf, eof, outLines, srvLast, srvClosing, cancelled,
                   pc, stage, ctx, arg, bg, data, nOps, mockIn>>

(***************************************************************************)
(* The client and its server.                                              *)
(***************************************************************************)
\* Nothing has been sent, received or called yet.
Quiet ==
    /\ conn = "open"
    /\ outLines = <<>>
    /\ srvLast = NoReply
    /\ srvClosing = 0
    /\ cancelled = FALSE
    /\ pc = "idle"
    /\ stage = "-"
    /\ ctx = "bg"
    /\ arg = NoArg
    /\ log = <<>>
    /\ ret = NoRet
    /\ bg = <<>>
    /\ data = <<>>
    /\ stream = NoStream
    /\ nOps = 0

Init ==
    /\ Quiet
    /\ family \in {"tcp", "tcp6"}
    /\ inbuf = <<>>
    /\ eof = FALSE
    /\ mockIn = NoMock

\* What every use of the client shares: sendCommand's steps, the background
\* units, the server, the transport and the context.
ChannelNext ==
    \/ SendWrite \/ SendSpawn
    \/ \E i \in DOMAIN bg : BgWrite(i)
    \/ \E i \in DOMAIN bg : BgRead(i)
    \/ ServerReply
    \/ Break \/ Cancel

\* A caller that uses Do and Login.
CommandNext ==
    \/ CallDo \/ DoReturn
    \/ CallLogin \/ LoginUserReturn \/ LoginPassReturn
    \/ ChannelNext

\* A caller that uses Text and Binary and the streams they return.
TransferNext ==
    \/ CallTransfer \/ TypeReturn \/ EpsvReturn \/ PasvReturn \/ CmdReturn
    \/ CallClose \/ CloseRead \/ StreamIO
    \/ ServerClosing
    \/ ChannelNext

Next == CommandNext \/ TransferNext

Spec == Init /\ [][Next]_vars
CommandSpec == Init /\ [][CommandNext]_vars
TransferSpec == Init /\ [][TransferNext]_vars

(***************************************************************************)
(* A session from Dial to Quit.                                            *)
(***************************************************************************)
SessionInit ==
    /\ family = "none"
    /\ conn = "none"
    /\ inbuf = <<>>
    /\ eof = FALSE
    /\ outLines = <<>>
    /\ srvLast = NoReply
    /\ srvClosing = 0
    /\ cancelled = FALSE
    /\ pc = "nil"
    /\ stage = "-"
    /\ ctx = "bg"
    /\ arg = NoArg
    /\ log = <<>>
    /\ ret = NoRet
    /\ bg = <<>>
    /\ data = <<>>
    /\ stream = NoStream
    /\ nOps = 0
    /\ mockIn = NoMock

SessionNext ==
    \/ CallDial \/ WelcomeReturn
    \/ CallDo \/ DoReturn
    \/ CallQuit \/ QuitReturn
    \/ ChannelNext

SessionSpec == SessionInit /\ [][SessionNext]_vars

(***************************************************************************)
(* One caller after the other: Do, Login, Text and Binary under contexts   *)
(* that cannot be cancelled, every stream closed before the next command.  *)
(***************************************************************************)
NoOpenStream == IF stream = NoStream THEN TRUE ELSE data[stream.rwc] = "closed"

CallSequential ==
    /\ NoOpenStream
    /\ ctx' = "bg"
    /\ CallDo \/ CallLogin \/ CallTransfer

SequentialNext ==
    \/ CallSequential
    \/ DoReturn \/ LoginUserReturn \/ LoginPassReturn
    \/ TypeReturn \/ EpsvReturn \/ PasvReturn \/ CmdReturn
    \/ CallClose \/ CloseRead
    \/ SendWrite \/ ServerReply \/ ServerClosing \/ Break

SequentialSpec == Init /\ [][SequentialNext]_vars

(***************************************************************************)
(* A wrapped stream on its own: the transferConn that transfer builds      *)
(* around an open data connection, with any of the contexts a caller may   *)
(* hand to Text or Binary.  The server owes the closing reply.             *)
(***************************************************************************)
StreamInit ==
    /\ family = "tcp"
    /\ conn = "open"
    /\ inbuf = <<>>
    /\ eof = FALSE
    /\ outLines = <<>>
    /\ srvLast \in {Reply(150, cmd) : cmd \in XferCmds}
    /\ srvClosing = 1
    /\ cancelled = FALSE
    /\ pc = "idle"
    /\ stage = "-"
    /\ ctx = "bg"
    /\ arg = NoArg
    /\ log = <<>>
    /\ ret = NoRet
    /\ bg = <<>>
    /\ data = <<"open">>
    /\ stream \in {Stream(1, c, FALSE) : c \in Contexts}
    /\ nOps = 0
    /\ mockIn = NoMock

StreamNext ==
    \/ StreamIO \/ CallClose \/ CloseRead
    \/ ServerClosing \/ Break \/ Cancel

StreamSpec == StreamInit /\ [][StreamNext]_vars

(***************************************************************************)
(* The two parsers on their own, as TestParsePasvReply and TestEpsvReply   *)
(* drive them: a message goes in, an address or a port comes out.          *)
(***************************************************************************)
\* The numbers of a PASV message, what stands before them and after them.
PasvValues == {0, 47, 255, 256}
PasvLeads == {<<>>, <<"2", "2", "7", SP>>, <<"1", ",", "2", SP>>}
PasvTrails == {<<>>, <<")">>, <<",", "8">>,
               <<SP, "9", ",", "9", ",", "9", ",", "9", ",", "9", ",", "9">>}

RECURSIVE JoinComma(_)
JoinComma(nums) ==
    IF Len(nums) = 1 THEN Itoa(nums[1])
    ELSE Itoa(nums[1]) \o <<",">> \o JoinComma(Tail(nums))

\* TestParsePasvReply: "227 Entering Passive Mode. 192,0,2,47,4,7"
PasvExample ==
    [kind |-> "pasv", nums |-> <<192, 0, 2, 47, 4, 7>>,
     msg |-> <<"2", "2", "7", SP, "E", "n", "t", "e", "r", "i", "n", "g", SP,
               "P", "a", "s", "s", "i", "v", "e", SP, "M", "o", "d", "e", ".",
               SP>> \o JoinComma(<<192, 0, 2, 47, 4, 7>>)]

PasvInputs ==
    {[kind |-> "pasv", nums |-> nums,
      msg |-> lead \o JoinComma(nums) \o trail] :
        nums \in [1..6 -> PasvValues], lead \in PasvLeads, trail \in PasvTrails}
    \cup {PasvExample}

\* The pieces an EPSV message is put together from.
MaxTokens == 4
EpsvTokens == {epsvStart, epsvEnd, <<"8">>, <<"3", "1">>, <<"a">>, <<"|">>}

RECURSIVE Concat(_)
Concat(ts) == IF ts = <<>> THEN <<>> ELSE Head(ts) \o Concat(Tail(ts))

\* TestEpsvReply: "229 Entering Extended Passive Mode. (|||1031|)"
EpsvExample ==
    [kind |-> "epsv", nums |-> <<>>,
     msg |-> <<"2", "2", "9", SP, "E", "n", "t", "e", "r", "i", "n", "g", SP,
               "E", "x", "t", "e", "n", "d", "e", "d", SP,
               "P", "a", "s", "s", "i", "v", "e", SP, "M", "o", "d", "e", ".",
               SP>> \o epsvStart \o <<"1", "0", "3", "1">> \o epsvEnd]

EpsvInputs ==
    {[kind |-> "epsv", nums |-> <<>>, msg |-> Concat(ts)] :
        ts \in UNION {[1..n -> EpsvTokens] : n \in 0..MaxTokens}}
    \cup {EpsvExample}

\* Numbers of a PASV message beyond a byte and beyond an int, as text.
PasvTexts ==
    {<<"7">>, <<"2", "5", "6">>,
     <<"0", "0", "0", "0", "0", "0", "0", "0", "0", "0",
       "0", "0", "0", "0", "0", "0", "0", "0", "0", "0", "2", "5", "7">>,
     Take(MaxInt, Len(MaxInt) - 1) \o <<"6">>,
     Take(MaxInt, Len(MaxInt) - 1) \o <<"8">>,
     <<"1", "8", "4", "4", "6", "7", "4", "4", "0", "7",
       "3", "7", "0", "9", "5", "5", "1", "6", "1", "6">>}

RECURSIVE JoinTexts(_)
JoinTexts(ts) ==
    IF Len(ts) = 1 THEN ts[1] ELSE ts[1] \o <<",">> \o JoinTexts(Tail(ts))

\* h1, p1 and p2 are drawn from PasvTexts, the other three are 7.
PasvTextSextets ==
    {<<h, <<"7">>, <<"7">>, <<"7">>, p1, p2>> :
        h \in PasvTexts, p1 \in PasvTexts, p2 \in PasvTexts}

PasvTextInputs ==
    {[kind |-> "pasvText", nums |-> ts,
      msg |-> <<"2", "2", "7", SP, "(">> \o JoinTexts(ts) \o <<")">>] :
        ts \in PasvTextSextets}

ParserInputs == PasvInputs \cup EpsvInputs \cup PasvTextInputs

ParserInit ==
    /\ Quiet
    /\ family = "tcp"
    /\ inbuf = <<>>
    /\ eof = TRUE
    /\ mockIn \in ParserInputs

\* parsePasvReply(msg) is called.
CallParsePasv ==
    /\ \E r \in {parsePasvReply(mockIn.msg)} :
          /\ ret' = Ret("parsePasvReply", NoReply, Err(r.err), FALSE)
          /\ log' = <<EvAddr("addr", r.addr, Err(r.err))>>
    /\ UNCHANGED <<family, conn, inbuf, eof, outLines, srvLast, srvClosing, cancelled,
                   pc, stage, ctx, arg, bg, data, stream, nOps, mockIn>>

\* parseEpsvReply(msg) is called.
CallParseEpsv ==
    /\ \E r \in {parseEpsvReply(mockIn.msg)} :
          /\ ret' = Ret("parseEpsvReply", NoReply, Err(r.err), FALSE)
          /\ log' = <<EvAddr("port", [ip |-> <<>>, port |-> r.port], Err(r.err))>>
    /\ UNCHANGED <<family, conn, inbuf, eof, outLines, srvLast, srvClosing, cancelled,
                   pc, stage, ctx, arg, bg, data, stream, nOps, mockIn>>

ParserNext == CallParsePasv \/ CallParseEpsv

ParserSpec == ParserInit /\ [][ParserNext]_vars

(***************************************************************************)
(* The reply reader on a mock transport, as TestClientResponse drives it:  *)
(* a buffer holding some lines, then the end of the stream.                *)
(***************************************************************************)
PrefixChars == {"0", "1", "+"}
Prefix3 == [1..3 -> PrefixChars]
             \cup {<<"-", "1", "1">>, <<"a", "1", "1">>, <<"1", "1", "a">>}
FourthChars == {SP, "-", "x"}
Texts == {<<>>, <<"b">>, <<SP, "b">>}
ShortLines == {<<>>, <<"1">>, <<"1", "1">>, <<"1", "1", "1">>}
FirstLines == {p \o <<f>> \o t : p \in Prefix3, f \in FourthChars, t \in Texts}
                \cup ShortLines
MoreLines == {<<"c">>, <<>>,
              <<"1", "1", "1", SP, "d">>, <<"1", "1", SP, "d">>,
              <<"0", "1", "1", SP, "d">>, <<SP, "1", "1", "1", SP, "d">>,
              <<"1", "1", "1", "-", "d">>, <<"1", "1", "1">>,
              <<"1", "1", "0", SP, "d">>}

\* The lines a mock transport may hold: a first line and up to MaxLines - 1 more.
RECURSIVE LinesUpTo(_)
LinesUpTo(n) ==
    IF n = 1 THEN {<<f>> : f \in FirstLines}
    ELSE LinesUpTo(n - 1)
           \cup {Append(ls, m) : ls \in {x \in LinesUpTo(n - 1) : Len(x) = n - 1},
                                 m \in MoreLines}

\* The bytes of the mock: every line with its terminator, the last line
\* without one when the buffer ends unterminated.
RECURSIVE Bytes(_, _, _)
Bytes(lines, term, closed) ==
    IF lines = <<>> THEN <<>>
    ELSE IF Len(lines) = 1
    THEN lines[1] \o (IF closed THEN term ELSE <<>>)
    ELSE lines[1] \o term \o Bytes(Tail(lines), term, closed)

ReaderInit ==
    /\ Quiet
    /\ family = "tcp"
    /\ eof = TRUE
    /\ \E ls \in LinesUpTo(MaxLines), t \in {CRLF, <<LF>>}, c \in BOOLEAN :
          /\ c \/ (ls[Len(ls)] # <<>> /\ t = CRLF)
          /\ mockIn = [lines |-> ls, term |-> t, closed |-> c]
          /\ inbuf = Bytes(ls, t, c)

\* client.readResponse() called directly on the mock transport.
ReadResponse ==
    /\ pc = "idle"
    /\ nOps < MaxOps
    /\ \E r \in {response(inbuf, eof)} :
           /\ r.err # "blocked"
           /\ inbuf' = r.rest
           /\ ret' = Ret("readResponse", r.reply, Err(r.err), FALSE)
    /\ nOps' = nOps + 1
    /\ UNCHANGED <<family, conn, eof, outLines, srvLast, srvClosing, cancelled,
                   pc, stage, ctx, arg, log, bg, data, stream, mockIn>>

\* c.sendCmd(command) on a client over the mock transport: the command line
\* goes to the mock's write buffer and one reply is read.
SendCmdMock ==
    /\ pc = "idle"
    /\ nOps < MaxOps
    /\ outLines' = Append(outLines, PrintfLine(<<"N", "O", "O", "P">>))
    /\ \E r \in {response(inbuf, eof)} :
           /\ r.err # "blocked"
           /\ inbuf' = r.rest
           /\ ret' = Ret("sendCmd", r.reply, Err(r.err), FALSE)
    /\ nOps' = nOps + 1
    /\ UNCHANGED <<family, conn, eof, srvLast, srvClosing, cancelled,
                   pc, stage, ctx, arg, log, bg, data, stream, mockIn>>

ReaderNext == ReadResponse \/ SendCmdMock

ReaderSpec == ReaderInit /\ [][ReaderNext]_vars

(***************************************************************************)
(* The reply reader's claims, on the first reply read from the mock.       *)
(***************************************************************************)
FirstRead == nOps = 1 /\ ret.op = "readResponse"
FirstLine == mockIn.lines[1]

\* "<code> <text>": three digits, a space, any text.
ValidSingle(line) ==
    Len(line) >= 4 /\ AllDigits(Take(line, 3)) /\ line[4] = SP

\* C6: a valid single-line input "<code> <text>" is read as Reply{code, text}
\* with no error, text being exactly what follows the 4th character up to the
\* line terminator.
C6_SingleLineReply ==
    (FirstRead /\ ValidSingle(FirstLine)) =>
        /\ ret.err = NilErr
        /\ ret.reply = Reply(DecimalValue(Take(FirstLine, 3)), Drop(FirstLine, 4))

C6_Witness ==
    /\ FirstRead
    /\ FirstLine = <<"1", "0", "1", SP, SP, "b">>
    /\ mockIn.term = CRLF
    /\ ret.reply = Reply(101, <<SP, "b">>)

\* "<code>-<text>", continuation lines, then the first line that starts with
\* "<code> ": the terminator.
ValidMulti(ls) ==
    /\ Len(ls) >= 2
    /\ Len(ls[1]) >= 4 /\ AllDigits(Take(ls[1], 3)) /\ ls[1][4] = "-"
    /\ HasPrefix(ls[Len(ls)], Take(ls[1], 3) \o <<SP>>)
    /\ \A i \in 2..(Len(ls) - 1) : ~HasPrefix(ls[i], Take(ls[1], 3) \o <<SP>>)

MultiMessage(ls) ==
    JoinLF(<<Drop(ls[1], 4)>> \o SubSeq(ls, 2, Len(ls) - 1)
             \o <<Drop(ls[Len(ls)], 4)>>)

\* C7: a valid multi-line input is read as its code and the first line's
\* remainder, the continuation lines and the terminator's text joined by "\n";
\* no continuation line is taken for the terminator.
C7_MultiLineReply ==
    (FirstRead /\ ValidMulti(mockIn.lines)) =>
        /\ ret.err = NilErr
        /\ ret.reply = Reply(DecimalValue(Take(FirstLine, 3)),
                             MultiMessage(mockIn.lines))

\* The same for the codes whose decimal form is their three wire digits.
MultiLineReplyFrom100 ==
    (/\ FirstRead /\ ValidMulti(mockIn.lines)
     /\ Itoa(DecimalValue(Take(FirstLine, 3))) = Take(FirstLine, 3)) =>
        /\ ret.err = NilErr
        /\ ret.reply = Reply(DecimalValue(Take(FirstLine, 3)),
                             MultiMessage(mockIn.lines))

MultiLineWitness ==
    /\ FirstRead /\ ValidMulti(mockIn.lines) /\ Len(mockIn.lines) = 3
    /\ mockIn.lines[2] = <<SP, "1", "1", "1", SP, "d">>
    /\ ret.reply.Code = 111

\* C8: a first line shorter than 4 characters, and one whose 4th character is
\* neither ' ' nor '-', give a framing error and the empty Reply.
C8_FramingError ==
    (FirstRead /\ (Len(FirstLine) < 4 \/ FirstLine[4] \notin {SP, "-"})) =>
        /\ ret.err.kind \in {"short", "atoi", "space"}
        /\ ret.reply = NoReply

C8_Witness ==
    /\ FirstRead
    /\ FirstLine = <<"1", "0", "1", "x", "b">>
    /\ ret.err = Err("space")

C8_WitnessShort ==
    /\ FirstRead
    /\ FirstLine = <<"1", "1", "1">>
    /\ ret.err = Err("short")

(***************************************************************************)
(* The command channel under CommandSpec: Do, Login and cancellation.      *)
(***************************************************************************)
\* An operation has returned to its caller.
Returned(op) == pc = "idle" /\ ret.op = op

\* The sendCommand calls of the operation and what they returned.
Calls == SelectSeq(log, LAMBDA e : e.ev = "call")
Returns == SelectSeq(log, LAMBDA e : e.ev = "return")
Writes == SelectSeq(log, LAMBDA e : e.ev = "write")
Reads == SelectSeq(log, LAMBDA e : e.ev = "read")

\* The reply is one the server gives to the command.
Answers(reply, cmd) == reply \in ServerReplies(cmd \o CRLF)

\* Every reply the server gives to a command of the caller.
AllCmds == DoCmds \cup {CmdUSER, CmdPASS}
ServerSends == UNION {ServerReplies(c \o CRLF) : c \in AllCmds}

\* C1: a client is used by one caller, one command at a time: a command
\* called after an earlier, cancelled command has returned is safe, so a Do
\* that returns a reply and no error returns a reply to its own command.
C1_CommandAfterCancelIsSafe ==
    (Returned("Do") /\ ctx = "bg" /\ ret.err = NilErr /\ bg # <<>>)
        => Answers(ret.reply, arg.cmd)

\* Without an earlier cancelled command a Do that returns no error returns a
\* reply to its own command.
CommandAloneIsSafe ==
    (Returned("Do") /\ ctx = "bg" /\ ret.err = NilErr /\ arg.quiet)
        => Answers(ret.reply, arg.cmd)

\* C2: when the context is cancelled after sendCommand has started its
\* write-and-read unit, the caller gets the cancellation error and an empty
\* Reply; the unit is not aborted: its write stays enabled whether the context
\* is cancelled or not, it ends with an error only when the transport has
\* failed, never with the cancellation, and otherwise it ends having written
\* its command once and consumed exactly one complete reply.
C2_CancelledCommand ==
    /\ (Returned("Do") /\ ctx = "c")
          => ret.err = Err("canceled") /\ ret.reply = NoReply /\ cancelled
    /\ \A i \in DOMAIN bg :
          /\ bg[i].pc = "write" => bg[i].writes = 0 /\ bg[i].reads = 0
          /\ bg[i].pc = "write" => ENABLED BgWrite(i)
          /\ bg[i].pc = "read" => bg[i].writes = 1 /\ bg[i].reads = 0
          /\ (bg[i].pc = "done" /\ bg[i].err = NilErr)
                => /\ bg[i].writes = 1 /\ bg[i].reads = 1
                   /\ bg[i].reply \in ServerSends
          /\ (bg[i].pc = "done" /\ bg[i].err # NilErr)
                => /\ eof /\ bg[i].err.kind \in {"io", "EOF"}
                   /\ bg[i].writes <= 1 /\ bg[i].reads <= bg[i].writes

\* The caller has the cancellation error and the unit went on to the end.
C2_Witness ==
    /\ Returned("Do") /\ ctx = "c" /\ cancelled
    /\ ret.err = Err("canceled")
    /\ \E i \in DOMAIN bg :
          /\ bg[i].cmd = arg.cmd /\ bg[i].pc = "done" /\ bg[i].err = NilErr
          /\ bg[i].writes = 1 /\ bg[i].reads = 1
          /\ Answers(bg[i].reply, arg.cmd)

\* C9: Do with a context that cannot be cancelled sends the command followed
\* by CRLF with one write, reads one reply and returns it: a reply of any
\* code, 4xx and 5xx too, comes back as the Reply with a nil error, and the
\* error is an I/O or framing error only.  On a connection at rest the reply
\* returned is the one the server sent last.
C9_DoReturnsTheReply ==
    (Returned("Do") /\ ctx = "bg") =>
        /\ log[1] = EvCall(arg.cmd)
        /\ Len(Writes) = 1 /\ log[2] = Writes[1]
        /\ IF Writes[1].err = NilErr
           THEN /\ Writes[1].cmd = arg.cmd \o CRLF
                /\ log = <<log[1], log[2], EvRead(ret.reply, ret.err),
                           EvReturn(ret.reply, ret.err)>>
                /\ ret.err.kind \in {"nil", "EOF", "short", "atoi", "space"}
           ELSE /\ log = <<log[1], log[2], EvReturn(NoReply, Err("io"))>>
                /\ ret.reply = NoReply /\ ret.err = Err("io")
        /\ (arg.quiet /\ ret.err = NilErr)
              => ret.reply = srvLast /\ Answers(ret.reply, arg.cmd)

\* Do returned a 5xx reply with a nil error.
C9_Witness ==
    /\ Returned("Do") /\ ctx = "bg" /\ arg.quiet
    /\ ret.err = NilErr /\ ret.reply = Reply(500, arg.cmd)
    /\ Len(log) = 4

\* C10: Login sends "USER <name>" first.  It sends "PASS <password>" exactly
\* when the reply to USER has code 331, and nothing after that.  It returns
\* nil exactly when the last reply it got is 2xx; any other last reply is
\* returned as the error; the error of a sendCommand is returned as it is.
C10_Login ==
    Returned("Login") =>
        /\ Len(Calls) \in {1, 2} /\ Len(Returns) = Len(Calls)
        /\ Calls[1].cmd = CmdUSER
        /\ Len(Calls) = 2
              <=> (Returns[1].err = NilErr /\ Returns[1].reply.Code = 331)
        /\ Len(Calls) = 2 => Calls[2].cmd = CmdPASS
        /\ ctx = "bg" =>
              \A i \in 1..Len(Writes) :
                  Writes[i].err = NilErr => Writes[i].cmd = Calls[i].cmd \o CRLF
        /\ LET last == Returns[Len(Returns)]
           IN  IF last.err # NilErr THEN ret.err = last.err
               ELSE IF last.reply.Code \in 200..299 THEN ret.err = NilErr
               ELSE ret.err = ReplyErr(last.reply)

\* Login sent USER, got 331, sent PASS and succeeded.
C10_Witness ==
    /\ Returned("Login") /\ ctx = "bg" /\ arg.quiet
    /\ Len(Calls) = 2 /\ Returns[1].reply = Reply(331, CmdUSER)
    /\ Returns[2].reply = Reply(230, CmdPASS)
    /\ ret.err = NilErr

\* Login got a 5xx reply to USER and returned it as the error without PASS.
C10_WitnessRefused ==
    /\ Returned("Login") /\ ctx = "bg" /\ arg.quiet
    /\ Len(Calls) = 1
    /\ ret.err = ReplyErr(Reply(530, CmdUSER))

(***************************************************************************)
(* The data channel under TransferSpec: transfer and the wrapped stream.   *)
(***************************************************************************)
\* transfer opened a data connection in this call.
Dialed == \E i \in DOMAIN log : log[i].ev = "dial" /\ log[i].err = NilErr

\* C3: once the data connection has been opened, every failing return of
\* transfer closes it before the error is returned, after a negative reply to
\* the transfer command as after an I/O error or a cancellation.
C3_FailedTransferClosesData ==
    (Returned("transfer") /\ ret.err # NilErr /\ Dialed)
        => data[Len(data)] = "closed"

\* The part of C3 the code keeps: the data connection is closed when the
\* transfer command's sendCommand returns an error.
FailedCommandClosesData ==
    (Returned("transfer") /\ ret.err # NilErr /\ Dialed
        /\ Returns[Len(Returns)].err # NilErr)
        => data[Len(data)] = "closed"

\* The transfer command failed with an I/O error after the dial.
FailedCommandWitness ==
    /\ Returned("transfer") /\ Dialed
    /\ Returns[Len(Returns)].err = Err("EOF")
    /\ data[Len(data)] = "closed"

C4_WitnessUsed ==
    /\ Returned("Close") /\ stream.used /\ arg.quiet
    /\ log = <<EvDataClose(NilErr), EvRead(Reply(426, <<"e", "n", "d">>), NilErr)>>
    /\ ret.err = ReplyErr(Reply(426, <<"e", "n", "d">>))

\* The negotiation commands transfer called, and what obtainPassiveAddress
\* returned.
Negotiation == SelectSeq(Calls, LAMBDA e : e.cmd \in {CmdEPSV, CmdPASV})
Obtained == SelectSeq(log, LAMBDA e : e.ev = "addr")
ReturnOf(cmd) ==
    LET i == CHOOSE i \in DOMAIN Calls : Calls[i].cmd = cmd IN Returns[i]

\* C5: on an IPv6 control connection obtainPassiveAddress sends EPSV and no
\* PASV and returns the EPSV reply's port with the control peer's IP; on any
\* other control connection it sends PASV and no EPSV and returns the address
\* parsed from the PASV reply.
C5_ObtainPassiveAddress ==
    (Returned("transfer") /\ Obtained # <<>>) =>
        IF family = "tcp6"
        THEN /\ Negotiation = <<EvCall(CmdEPSV)>>
             /\ Obtained[1].err = NilErr =>
                   Obtained[1].addr =
                       [ip |-> PeerIP,
                        port |-> parseEpsvReply(ReturnOf(CmdEPSV).reply.Msg).port]
        ELSE /\ Negotiation = <<EvCall(CmdPASV)>>
             /\ Obtained[1].err = NilErr =>
                   Obtained[1].addr =
                       parsePasvReply(ReturnOf(CmdPASV).reply.Msg).addr

\* The part of C5 the code keeps: a control connection that is not IPv6.
ObtainPassiveAddressTcp4 == family # "tcp6" => C5_ObtainPassiveAddress

ObtainPassiveAddressTcp4Witness ==
    /\ Returned("transfer") /\ family = "tcp" /\ arg.quiet
    /\ Obtained # <<>> /\ Obtained[1].err = NilErr
    /\ Obtained[1].addr.port = 7

(***************************************************************************)
(* Claims about the wrapped stream.                                        *)
(***************************************************************************)
\* A step that is a Read or a Write of the wrapped stream.
StreamIOStep ==
    /\ ret'.op \in {"Read", "Write"}
    /\ <<ret, log, stream>>' # <<ret, log, stream>>

\* C11: when the cancellation signal of the stream's context has fired
\* already at a Read or Write of the wrapped stream, the call returns 0 bytes
\* and the context's error and the data transport is not called; when it has
\* not fired, or the context cannot be cancelled, the call goes to the data
\* transport and returns what the transport returns.
C11_StreamReadWrite ==
    [][StreamIOStep =>
         IF stream.ctx # "bg" /\ cancelled
         THEN /\ ret'.n = 0
              /\ ret'.err = Err(IF stream.ctx = "d" THEN "deadline"
                                ELSE "canceled")
              /\ log' = <<>>
              /\ stream'.used = stream.used
         ELSE /\ Len(log') = 1
              /\ log'[1].ev = "rwc." \o ret'.op
              /\ <<ret'.n, ret'.err>> \in {<<1, NilErr>>, <<0, Err("io")>>}
              /\ log'[1].err = ret'.err
              /\ stream'.used]_vars

\* A Read or Write was refused: the context was cancelled before the call.
C11_Witness ==
    /\ ret.op \in {"Read", "Write"} /\ log = <<>>
    /\ stream.ctx = "c" /\ cancelled
    /\ ret.err = Err("canceled") /\ ret.n = 0

\* A Read or Write went to the transport under a cancellable context.
C11_WitnessForwarded ==
    /\ ret.op \in {"Read", "Write"} /\ log # <<>>
    /\ stream.ctx = "c" /\ ~cancelled /\ ret.n = 1

(***************************************************************************)
(* Claims about the parsers.                                               *)
(***************************************************************************)
\* C12: a message whose first six comma-separated decimal numbers are
\* h1,h2,h3,h4,p1,p2, each in 0..255, with any text before and after, parses
\* without error to host h1.h2.h3.h4 and port p1*256+p2.
C12_ParsePasvReply ==
    (/\ ret.op = "parsePasvReply" /\ mockIn.kind = "pasv"
     /\ \A k \in 1..6 : mockIn.nums[k] \in 0..255)
    => /\ ret.err = NilErr
       /\ log[1].addr.ip = SubSeq(mockIn.nums, 1, 4)
       /\ log[1].addr.port = mockIn.nums[5] * 256 + mockIn.nums[6]

\* 192,0,2,47,4,7 after the test's text has given 192.0.2.47 port 1031.
C12_Witness ==
    /\ ret.op = "parsePasvReply" /\ mockIn = PasvExample
    /\ log[1].addr = [ip |-> <<192, 0, 2, 47>>, port |-> 1031]

\* A sextet between other numbers has been parsed.
C12_WitnessAmidText ==
    /\ ret.op = "parsePasvReply" /\ mockIn.kind = "pasv"
    /\ mockIn.nums = <<255, 0, 0, 47, 47, 255>>
    /\ Len(mockIn.msg) > 30 /\ mockIn.msg[1] = "1"
    /\ log[1].addr.port = 47 * 256 + 255

\* Where sub stands in s, counting from 1.
Occurrences(s, sub) ==
    {i \in 1..(Len(s) - Len(sub) + 1) : SubSeq(s, i, i + Len(sub) - 1) = sub}
Last(S) == CHOOSE i \in S : \A j \in S : j <= i

\* The text between the start delimiter at i and the end delimiter at e.
Between(s, i, e) == SubSeq(s, i + Len(epsvStart), e - 1)
IsPort(text) == text # <<>> /\ AllDigits(text)

\* C13: parseEpsvReply takes the last "(|||" and the last "|)" of the message;
\* when the end delimiter starts after the end of the start delimiter it
\* returns the decimal value of the text between them as the port.
C13_ParseEpsvReply ==
    LET msg == mockIn.msg
        starts == Occurrences(msg, epsvStart)
        ends == Occurrences(msg, epsvEnd)
    IN  (/\ ret.op = "parseEpsvReply"
         /\ starts # {} /\ ends # {}
         /\ Last(ends) > Last(starts) + Len(epsvStart)
         /\ IsPort(Between(msg, Last(starts), Last(ends))))
        => /\ ret.err = NilErr
           /\ log[1].addr.port =
                  DecimalValue(Between(msg, Last(starts), Last(ends)))

\* "229 Entering Extended Passive Mode. (|||1031|)" has given 1031.
C13_Witness ==
    /\ ret.op = "parseEpsvReply" /\ mockIn = EpsvExample
    /\ ret.err = NilErr /\ log[1].addr.port = 1031

\* The last of two start delimiters and the last of two end delimiters.
C13_WitnessLast ==
    /\ ret.op = "parseEpsvReply"
    /\ mockIn.msg = epsvStart \o epsvStart \o <<"3", "1">> \o epsvEnd
    /\ log[1].addr.port = 31

\* The start delimiters of msg that lie before its last end delimiter.
StartsBeforeEnd(msg) ==
    {i \in Occurrences(msg, epsvStart) :
        i + Len(epsvStart) <= Last(Occurrences(msg, epsvEnd))}

\* C14: when "(|||" occurs twice in the body and "|)" follows at least one
\* of the two, parseEpsvReply returns the port between the end delimiter and
\* the last start delimiter before it, also when the other start delimiter
\* comes after the end delimiter.
C14_TwoStartDelimiters ==
    LET msg == mockIn.msg
        starts == Occurrences(msg, epsvStart)
        ends == Occurrences(msg, epsvEnd)
    IN  (/\ ret.op = "parseEpsvReply"
         /\ Cardinality(starts) = 2 /\ ends # {}
         /\ StartsBeforeEnd(msg) # {}
         /\ IsPort(Between(msg, Last(StartsBeforeEnd(msg)), Last(ends))))
        => /\ ret.err = NilErr
           /\ log[1].addr.port =
                  DecimalValue(Between(msg, Last(StartsBeforeEnd(msg)), Last(ends)))

\* What holds of a body with two start delimiters and an end delimiter: the
\* last start delimiter is the one used; when the end delimiter does not
\* start after its end, be it the second of the two, the parser returns the
\* error "EPSV reply provided no port" and no port.
LastStartDelimiterOfTwo ==
    LET msg == mockIn.msg
        starts == Occurrences(msg, epsvStart)
        ends == Occurrences(msg, epsvEnd)
    IN  (/\ ret.op = "parseEpsvReply"
         /\ Cardinality(starts) = 2 /\ ends # {})
        => IF Last(ends) <= Last(starts) + Len(epsvStart)
           THEN ret.err = Err("epsv") /\ log[1].addr.port = 0
           ELSE IsPort(Between(msg, Last(starts), Last(ends)))
                => /\ ret.err = NilErr
                   /\ log[1].addr.port =
                        DecimalValue(Between(msg, Last(starts), Last(ends)))

\* What the code does with a start delimiter after the end delimiter: the
\* fixed error, no port.
StartAfterEndIsRefused ==
    /\ ret.op = "parseEpsvReply"
    /\ mockIn.msg = epsvStart \o <<"8">> \o epsvEnd \o epsvStart
    /\ ret.err = Err("epsv") /\ log[1].addr.port = 0

(***************************************************************************)
(* Claims about Quit and Dial.                                             *)
(***************************************************************************)
ConnCloses == SelectSeq(log, LAMBDA e : e.ev = "connClose")

\* C15: Quit sends QUIT and then closes the control connection; when sending
\* QUIT returns the cancellation or the deadline error, Quit still calls Close
\* before it returns and returns what Close returns; when sending QUIT fails
\* with another error, Quit returns that error and does not close.
C15_Quit ==
    Returned("Quit") =>
       /\ Calls = <<EvCall(CmdQUIT)>>
       /\ Len(Returns) = 1
       /\ IF Returns[1].err = NilErr
             \/ Returns[1].err \in {Err("canceled"), Err("deadline")}
          THEN /\ Len(ConnCloses) = 1
               /\ log[Len(log)] = ConnCloses[1]
               /\ ret.err = ConnCloses[1].err
               /\ conn = "closed"
          ELSE /\ ConnCloses = <<>>
               /\ ret.err = Returns[1].err
               /\ conn = "open"
       /\ (ctx = "bg" /\ Returns[1].err = NilErr) =>
             /\ Len(Writes) = 1
             /\ Writes[1].cmd = CmdQUIT \o CRLF

\* Quit under a deadline that has passed has closed the connection.
C15_Witness ==
    /\ Returned("Quit") /\ ctx = "d"
    /\ Returns[1].err = Err("deadline")
    /\ conn = "closed" /\ ret.err = NilErr

\* Quit has returned the error of a failed write and left the connection.
C15_WitnessError ==
    /\ Returned("Quit") /\ ctx = "bg"
    /\ ret.err = Err("io") /\ conn = "open"

\* Quit has got its reply and closed the connection.
C15_WitnessReply ==
    /\ Returned("Quit") /\ ctx = "bg"
    /\ Reads # <<>> /\ Reads[1].reply.Code = 221
    /\ conn = "closed" /\ ret.err = Err("close")

\* Dial has returned an error without a connection, a Client or a byte.
DialRefused ==
    /\ ret.err # NilErr
    /\ conn = "none" /\ pc = "nil"
    /\ inbuf = <<>> /\ outLines = <<>>

\* C16: Dial with a network name that is not one of the TCP family returns
\* the configuration error "only TCP connections are supported" without
\* calling the dialer, without a Client and without a byte read or written.
C16_DialOnlyTcp ==
    (ret.op = "Dial" /\ arg.cmd \notin TcpNetworks)
    => /\ DialRefused
       /\ ret.err = Err("only TCP")
       /\ log = <<>>

\* What holds of every name: one that is not of the TCP family gets no
\* connection, no Client and no byte, and one that does not begin with "tcp"
\* does not get to the dialer.
DialRefusesOtherNetworks ==
    /\ (ret.op = "Dial" /\ arg.cmd \notin TcpNetworks) => DialRefused
    /\ (ret.op = "Dial" /\ ~HasPrefix(arg.cmd, <<"t", "c", "p">>))
       => ret.err = Err("only TCP") /\ log = <<>>

\* The name "tcpx" has got to the dialer.
DialReachedWithTcpx ==
    /\ ret.op = "Dial" /\ arg.cmd = <<"t", "c", "p", "x">>
    /\ log # <<>> /\ log[1].ev = "DialContext"
    /\ ret.err = Err("unknown network")

(***************************************************************************)
(* Claims about the whole of a session.                                    *)
(***************************************************************************)
\* The unit of the running sendCommand has read the server's reply to the
\* command, on a connection that was at rest at the call.
UnitHasReply ==
    /\ pc = "Do" /\ ctx # "bg" /\ stage = "select" /\ arg.quiet
    /\ bg # <<>>
    /\ bg[Len(bg)].pc = "done" /\ bg[Len(bg)].err = NilErr
    /\ bg[Len(bg)].cmd = arg.cmd
    /\ Answers(bg[Len(bg)].reply, arg.cmd)

\* C17: Do under a cancellable context that is not cancelled returns the
\* reply once the server has sent it: with the reply read, the call can
\* return, and the caller does not have to wait for a cancellation.
C17_CancellableDoReturns ==
    (UnitHasReply /\ ~cancelled) => ENABLED DoReturn

\* What the code does: once the reply is read the caller stays in the select
\* until the context is cancelled, and the call returns the context's error.
CancellableDoWaitsForCancel ==
    /\ UnitHasReply => (ENABLED DoReturn <=> cancelled)
    /\ (Returned("Do") /\ ctx # "bg") => ret.err = Err("canceled") /\ cancelled

\* The reply is read, the context is not cancelled, the caller waits.
CancellableDoWaits == UnitHasReply /\ ~cancelled /\ ~ENABLED DoReturn

\* The running or last operation is a transfer.
InTransfer ==
    \/ pc \in {"transfer.TYPE", "transfer.EPSV", "transfer.PASV", "transfer.CMD"}
    \/ Returned("transfer")

\* C20: the first command of a transfer is "TYPE A" (Text) or "TYPE I"
\* (Binary); when its reply is not 2xx the transfer returns that reply as the
\* error, and no PASV or EPSV is sent, no data connection is dialed and the
\* transfer command is not sent.
C20_TypeFirst ==
    /\ InTransfer =>
          /\ arg.typ \in {"A", "I"}
          /\ Calls[1].cmd = <<"T", "Y", "P", "E", " ", arg.typ>>
          /\ (Writes # <<>> /\ Writes[1].err = NilErr)
                => Writes[1].cmd = <<"T", "Y", "P", "E", " ", arg.typ, CR, LF>>
    /\ (/\ Returned("transfer") /\ Returns[1].err = NilErr
        /\ Returns[1].reply.Code \notin 200..299)
       => /\ ret.err = ReplyErr(Returns[1].reply)
          /\ ret.reply = NoReply /\ ~ret.stream
          /\ Len(Calls) = 1 /\ Len(Writes) = 1
          /\ \A i \in DOMAIN log : log[i].ev \notin {"dial", "addr"}

\* A transfer has ended with the 500 reply to its TYPE command.
C20_Witness ==
    /\ Returned("transfer") /\ arg.quiet
    /\ Returns[1].reply.Code = 500
    /\ ret.err = ReplyErr(Reply(500, CmdTYPE("I")))
    /\ outLines = <<>> /\ data = <<>>

(***************************************************************************)
(* What the reply reader leaves on the transport.                          *)
(***************************************************************************)
\* The mock's bytes after its first k lines.
BytesAfter(k) ==
    Bytes(SubSeq(mockIn.lines, k + 1, Len(mockIn.lines)), mockIn.term,
          mockIn.closed)

\* The lines after the first that start with prefix.
Terminators(prefix) ==
    {i \in 2..Len(mockIn.lines) : HasPrefix(mockIn.lines[i], prefix)}

\* The first read was successful and left the transport at the line after
\* the reply: after the first line of a single-line reply, after the first
\* line that starts with prefix of a multi-line one.
ConsumedOneReply(prefix) ==
    IF FirstLine[4] = SP THEN inbuf = BytesAfter(1)
    ELSE /\ Terminators(prefix) # {}
         /\ inbuf = BytesAfter(CHOOSE i \in Terminators(prefix) :
                                   \A j \in Terminators(prefix) : i <= j)

\* C19: a successful read consumes the lines of one reply and no more: one
\* line of a single-line reply, every line up to and including the first one
\* that starts with "<code> " of a multi-line reply, <code> being the three
\* digits of the first line; the next unread line is the next reply's first.
C19_ConsumesOneReply ==
    (FirstRead /\ ret.err = NilErr)
    => ConsumedOneReply(Take(FirstLine, 3) \o <<SP>>)

\* What the code does: it reads up to the first line that starts with the
\* decimal form of the code it has parsed.
ConsumesUpToEndPrefix ==
    (FirstRead /\ ret.err = NilErr)
    => ConsumedOneReply(Itoa(ret.reply.Code) \o <<SP>>)

\* A multi-line reply "011-..." was ended by a line "11 d".
ReplyEndedByOtherCode ==
    /\ FirstRead /\ ret.err = NilErr
    /\ Take(FirstLine, 4) = <<"0", "1", "1", "-">>
    /\ mockIn.lines[2] = <<"1", "1", SP, "d">>
    /\ Len(mockIn.lines) = 3 /\ mockIn.lines[3] = <<"0", "1", "1", SP, "d">>
    /\ inbuf = BytesAfter(2)

\* A multi-line reply was read and the next reply left unread.
ReplyLeftUnread ==
    /\ FirstRead /\ ret.err = NilErr
    /\ Take(FirstLine, 4) = <<"1", "1", "1", "-">>
    /\ mockIn.lines[2] = <<"1", "1", "1", SP, "d">>
    /\ Len(mockIn.lines) = 3
    /\ inbuf = BytesAfter(2) /\ inbuf # <<>>

(***************************************************************************)
(* Commands and replies in step.                                           *)
(***************************************************************************)
\* C18: with contexts that cannot be cancelled, one operation after the
\* other and every stream closed before the next command, each command gets
\* the server's reply to that same command and Close gets the closing reply:
\* at every return nothing the server has sent is left unread.
C18_RepliesInStep ==
    /\ \A i \in DOMAIN Returns :
          Returns[i].err = NilErr => Answers(Returns[i].reply, Calls[i].cmd)
    /\ (Returned("Do") /\ ret.err = NilErr) => Answers(ret.reply, arg.cmd)
    /\ (Returned("transfer") /\ ret.err = NilErr) => Answers(ret.reply, arg.cmd)
    /\ (Returned("Close") /\ Reads # <<>> /\ Reads[1].err = NilErr)
          => Reads[1].reply \in ClosingReplies
    /\ pc = "idle" => inbuf = <<>>

\* A Do after a transfer whose stream was closed has got its own reply.
DoAfterCloseInStep ==
    /\ Returned("Do") /\ ret.err = NilErr /\ nOps = 2
    /\ stream # NoStream /\ data[stream.rwc] = "closed"
    /\ srvClosing = 0 /\ ~eof
    /\ Answers(ret.reply, arg.cmd)

\* A Do after a Close that returned the data transport's error has got the
\* closing reply of the transfer.
DoGetsClosingReply ==
    /\ Returned("Do") /\ ret.err = NilErr /\ nOps = 2
    /\ stream # NoStream /\ data[stream.rwc] = "closed"
    /\ ret.reply \in ClosingReplies
    /\ ~Answers(ret.reply, arg.cmd)

(***************************************************************************)
(* The reply to the transfer command.                                      *)
(***************************************************************************)
\* transfer has returned after its transfer command's sendCommand gave a
\* reply: TYPE had succeeded and the data connection was open.
CmdReplied ==
    /\ Returned("transfer") /\ Dialed
    /\ Calls[Len(Calls)].cmd = arg.cmd
    /\ Len(Returns) = Len(Calls)
    /\ Returns[Len(Returns)].err = NilErr

\* C21: after TYPE succeeded and the data connection is open, transfer
\* returns the transfer command's reply together with a wrapped stream over
\* that data connection when the reply is 1xx, 2xx or 3xx, and returns the
\* reply as the error with no reply and no stream when it is 4xx or 5xx.
C21_TransferReply ==
    CmdReplied =>
        LET r == Returns[Len(Returns)].reply
        IN  /\ r.Code \in 100..399 =>
                  /\ ret.reply = r /\ ret.err = NilErr /\ ret.stream
                  /\ stream = Stream(Len(data), ctx, FALSE)
                  /\ data[stream.rwc] = "open"
            /\ r.Code \in 400..599 =>
                  /\ ret.err = ReplyErr(r)
                  /\ ret.reply = NoReply /\ ~ret.stream

\* A transfer has returned the preliminary reply 150 and a stream.
C21_Witness ==
    /\ CmdReplied /\ arg.quiet
    /\ ret.reply = Reply(150, arg.cmd) /\ ret.stream /\ ret.err = NilErr
    /\ data[stream.rwc] = "open"

\* A transfer has returned the intermediate reply 350 and a stream.
C21_WitnessIntermediate ==
    /\ CmdReplied /\ arg.quiet
    /\ ret.reply = Reply(350, arg.cmd) /\ ret.stream

\* A transfer has returned the reply 450 as the error.
C21_WitnessRefused ==
    /\ CmdReplied /\ arg.quiet
    /\ ret.err = ReplyErr(Reply(450, arg.cmd)) /\ ~ret.stream

(***************************************************************************)
(* A passive command the server refuses.                                   *)
(***************************************************************************)
\* The sendCommand of cmd has returned a reply whose code is not code.
Refused(cmd, code) ==
    /\ InTransfer
    /\ \E i \in DOMAIN Returns :
          /\ Calls[i].cmd = cmd
          /\ Returns[i].err = NilErr /\ Returns[i].reply.Code # code

\* No dial was attempted, and the address negotiation, once it has returned,
\* returned the refused reply to cmd as the error.
NoDialAfter(cmd) ==
    /\ \A i \in DOMAIN log : log[i].ev # "dial"
    /\ Obtained # <<>> => Obtained[1].err = ReplyErr(ReturnOf(cmd).reply)
    /\ Returned("transfer") =>
          /\ Obtained # <<>>
          /\ ret.err = ReplyErr(ReturnOf(cmd).reply) /\ ~ret.stream

\* C22: when the reply to PASV is not 227, or the reply to EPSV is not 229,
\* the address negotiation returns that reply as the error and no dial is
\* attempted.
C22_RefusedPassive ==
    /\ Refused(CmdPASV, CodePassive) => NoDialAfter(CmdPASV)
    /\ Refused(CmdEPSV, CodeExtendedPassive) => NoDialAfter(CmdEPSV)

\* The part of C22 the code keeps: a refused PASV.
RefusedPasvIsNotDialed ==
    Refused(CmdPASV, CodePassive) => NoDialAfter(CmdPASV)

\* A transfer has ended with the 500 reply to PASV and without a dial.
RefusedPasvWitness ==
    /\ Returned("transfer") /\ arg.quiet /\ family = "tcp"
    /\ Refused(CmdPASV, CodePassive)
    /\ ret.err = ReplyErr(Reply(500, CmdPASV))
    /\ data = <<>>

\* EPSV was refused with 500 and the transfer went on: PASV was sent and
\* the address of its reply dialed.
DialAfterRefusedEpsv ==
    /\ Returned("transfer") /\ arg.quiet /\ family = "tcp6"
    /\ Refused(CmdEPSV, CodeExtendedPassive)
    /\ ReturnOf(CmdEPSV).reply = Reply(500, CmdEPSV)
    /\ Dialed /\ ret.err = NilErr /\ ret.stream

(***************************************************************************)
(* A multi-line reply cut short by the transport.                          *)
(***************************************************************************)
\* The mock holds the first line of a multi-line reply and no line that
\* begins with the decimal code and a space: the transport ends before the
\* terminator.
CutMultiLine ==
    /\ Len(FirstLine) >= 4 /\ AllDigits(Take(FirstLine, 3)) /\ FirstLine[4] = "-"
    /\ Terminators(Itoa(DecimalValue(Take(FirstLine, 3))) \o <<SP>>) = {}

\* The first line's remainder and the lines after it, joined by "\n".
LinesSoFar == JoinLF(<<Drop(FirstLine, 4)>> \o Tail(mockIn.lines))

\* C23: when the transport ends after the first line of a multi-line reply
\* and before its terminator line, the reply reader returns the I/O error
\* together with a Reply of the code and the lines read so far joined by
\* "\n"; sendCmd returns the same Reply and error.
C23_PartialReply ==
    (nOps = 1 /\ ret.op \in {"readResponse", "sendCmd"} /\ CutMultiLine) =>
        /\ ret.err = Err("EOF")
        /\ ret.reply = Reply(DecimalValue(Take(FirstLine, 3)), LinesSoFar)
        /\ inbuf = <<>>

\* sendCmd has returned the two lines read and the end of the stream.
C23_Witness ==
    /\ nOps = 1 /\ ret.op = "sendCmd"
    /\ mockIn.lines = <<<<"1", "1", "1", "-", "b">>, <<"c">>>>
    /\ ret.reply = Reply(111, <<"b", LF, "c">>) /\ ret.err = Err("EOF")
    /\ outLines = <<<<"N", "O", "O", "P", CR, LF>>>>

\* The reader has returned the first line's text alone with the error.
C23_WitnessFirstLine ==
    /\ FirstRead /\ CutMultiLine /\ Len(mockIn.lines) = 1
    /\ mockIn.lines[1] = <<"1", "0", "1", "-", SP, "b">>
    /\ ret.reply = Reply(101, <<SP, "b">>) /\ ret.err = Err("EOF")

(***************************************************************************)
(* The three characters of the code.                                       *)
(***************************************************************************)
FramingErrors == {Err("short"), Err("atoi"), Err("space")}

\* The first line has three characters or more and its first three are not
\* three digits.
NotThreeDigits == Len(FirstLine) >= 3 /\ ~AllDigits(Take(FirstLine, 3))

\* C24: a Reply is returned without error only if the first three characters
\* of the first line are three digits; a first line whose first three
\* characters are anything else, a sign and two digits included, gives a
\* framing error and no Reply.
C24_ThreeDigits ==
    FirstRead =>
        /\ ret.err = NilErr => AllDigits(Take(FirstLine, 3))
        /\ NotThreeDigits => ret.err \in FramingErrors /\ ret.reply = NoReply

\* The part of C24 the code keeps: first lines that do not begin with a sign.
ThreeDigitsUnlessSigned ==
    (FirstRead /\ (FirstLine = <<>> \/ FirstLine[1] \notin {"+", "-"}))
        => C24_ThreeDigits

\* A letter among the three characters was refused.
LetterIsRefused ==
    /\ FirstRead /\ FirstLine = <<"1", "1", "a", SP, "b">>
    /\ ret.err = Err("atoi") /\ ret.reply = NoReply

\* "+11 b" was read as the reply 11, "-11 b" as the reply -11.
SignedCodeIsRead ==
    /\ FirstRead /\ ret.err = NilErr
    /\ \/ FirstLine = <<"+", "1", "1", SP, "b">> /\ ret.reply = Reply(11, <<"b">>)
       \/ FirstLine = <<"-", "1", "1", SP, "b">> /\ ret.reply = Reply(0 - 11, <<"b">>)

(***************************************************************************)
(* EPSV bodies without a port.                                             *)
(***************************************************************************)
\* A delimiter is missing from msg, or the last end delimiter does not start
\* after the end of the last start delimiter.
BadDelimiters(msg) ==
    LET starts == Occurrences(msg, epsvStart)
        ends == Occurrences(msg, epsvEnd)
    IN  \/ starts = {} \/ ends = {}
        \/ Last(ends) <= Last(starts) + Len(epsvStart)

\* The delimiters are in place and the text between them is not a decimal
\* number.
BadPortText(msg) ==
    /\ ~BadDelimiters(msg)
    /\ ~IsPort(Between(msg, Last(Occurrences(msg, epsvStart)),
                       Last(Occurrences(msg, epsvEnd))))

\* C25: for every EPSV body from which no port can be parsed (the start or
\* the end delimiter missing, the end delimiter not after the start
\* delimiter, or text between them that is not a decimal number)
\* parseEpsvReply returns the error "EPSV reply provided no port".
C25_NoPortError ==
    (/\ ret.op = "parseEpsvReply"
     /\ BadDelimiters(mockIn.msg) \/ BadPortText(mockIn.msg))
    => ret.err = Err("epsv") /\ log[1].addr.port = 0

\* The part of C25 the code keeps: missing and misordered delimiters.
BadDelimitersError ==
    (ret.op = "parseEpsvReply" /\ BadDelimiters(mockIn.msg))
    => ret.err = Err("epsv") /\ log[1].addr.port = 0

\* A body without an end delimiter has given the fixed error.
MissingEndIsRefused ==
    /\ ret.op = "parseEpsvReply"
    /\ mockIn.msg = epsvStart \o <<"8">>
    /\ ret.err = Err("epsv")

\* "(|||a|)" has given strconv.Atoi's error.
PortTextGivesAtoiError ==
    /\ ret.op = "parseEpsvReply"
    /\ mockIn.msg = epsvStart \o <<"a">> \o epsvEnd
    /\ ret.err = Err("atoi") /\ log[1].addr.port = 0

(***************************************************************************)
(* Close of a stream and the stream's context.                             *)
(***************************************************************************)
DataCloses == SelectSeq(log, LAMBDA e : e.ev = "dataClose")

\* What Close returns for the outcome of its one read.
ReadOutcome(rd) ==
    IF rd.err # NilErr THEN rd.err
    ELSE IF rd.reply.Code \in 200..299 THEN NilErr
    ELSE ReplyErr(rd.reply)

\* C26: Close of the wrapped stream does the same whether the stream's
\* context is cancelled or not: it closes the data transport once, reads
\* exactly one reply on the control connection, never none and never two,
\* and returns the outcome of that read, not the context's error.
C26_CloseIgnoresCancel ==
    Returned("Close") =>
        /\ Len(DataCloses) = 1
        /\ Len(Reads) = 1
        /\ ret.err = ReadOutcome(Reads[1])
        /\ ret.err \notin {ctxErr(c) : c \in Contexts}

\* The part of C26 the code keeps: what Close does once the data
\* transport's Close has returned nil.
CloseIgnoresCancelAfterClose ==
    (Returned("Close") /\ log[1] = EvDataClose(NilErr)) =>
        /\ Len(DataCloses) = 1
        /\ Len(Reads) = 1
        /\ ret.err = ReadOutcome(Reads[1])
        /\ ret.err \notin {ctxErr(c) : c \in Contexts}

\* Close on a stream whose context was cancelled before the call has read
\* the closing reply and returned nil.
CloseOfCancelledStream ==
    /\ Returned("Close") /\ stream.ctx # "bg" /\ cancelled
    /\ log = <<EvDataClose(NilErr), EvRead(Reply(226, <<"e", "n", "d">>), NilErr)>>
    /\ ret.err = NilErr

\* Close on a stream whose context was cancelled has returned the data
\* transport's error without a read.
CloseOfCancelledStreamNoRead ==
    /\ Returned("Close") /\ stream.ctx # "bg" /\ cancelled
    /\ log = <<EvDataClose(Err("io"))>>
    /\ ret.err = Err("io")

(***************************************************************************)
(* Close when the data transport's Close fails.                            *)
(***************************************************************************)
\* Close has returned after the data transport's Close returned an error.
CloseFailed ==
    /\ Returned("Close") /\ DataCloses # <<>> /\ DataCloses[1].err # NilErr

\* The server accepted the transfer with 150 and has sent its closing reply.
ClosingSent == srvLast.Code = 150 /\ srvClosing = 0

\* A read of the control connection is made in this step, by an operation
\* other than Close.
ReadAfterClose ==
    /\ pc # "Close.read" /\ stage = "read"
    /\ Len(Reads') = Len(Reads) + 1

\* C27: when the data transport's Close returns an error, Close of the
\* stream returns that error and reads nothing on the control connection;
\* the closing reply the server sends (the control connection being at rest
\* when Close was called) stays unread, and the next read of the control
\* connection returns it.
C27_CloseError ==
    [][/\ CloseFailed' =>
            /\ ret'.err = DataCloses'[1].err
            /\ Reads' = <<>> /\ Len(log') = 1
            /\ (arg'.quiet /\ ClosingSent')
                  => inbuf' \in {Wire(r) : r \in ClosingReplies}
       /\ \A r \in ClosingReplies :
            (ReadAfterClose /\ HasPrefix(inbuf, Wire(r)))
                => Reads'[Len(Reads')] = EvRead(r, NilErr)]_vars

\* Close has returned the transport's error and the closing reply is unread.
C27_Witness ==
    /\ CloseFailed /\ ret.err = Err("io") /\ log = <<EvDataClose(Err("io"))>>
    /\ arg.quiet /\ ClosingSent
    /\ inbuf = Wire(Reply(226, <<"e", "n", "d">>))

\* The command after that Close has read the closing reply.
C27_WitnessNextRead ==
    /\ Returned("Do") /\ nOps = 2
    /\ stream # NoStream /\ data[stream.rwc] = "closed"
    /\ Reads = <<EvRead(Reply(226, <<"e", "n", "d">>), NilErr)>>
    /\ ret.reply = Reply(226, <<"e", "n", "d">>)

(***************************************************************************)
(* PASV numbers beyond a byte.                                             *)
(***************************************************************************)
\* The k-th number of the sextet modulo 256.
Mod256(k) ==
    IF mockIn.kind = "pasv" THEN mockIn.nums[k] % 256 ELSE Low8(mockIn.nums[k])

\* C28: parsePasvReply refuses no sextet for the size of its numbers: each
\* number is reduced modulo 256, the host octets are h mod 256 and the port
\* is (p1 mod 256) * 256 + (p2 mod 256), within 0..65535.
C28_PasvModulo256 ==
    (ret.op = "parsePasvReply" /\ mockIn.kind \in {"pasv", "pasvText"}) =>
        /\ ret.err = NilErr
        /\ log[1].addr.ip = [k \in 1..4 |-> Mod256(k)]
        /\ log[1].addr.port = Mod256(5) * 256 + Mod256(6)
        /\ log[1].addr.port \in 0..65535

\* The k-th number as the code takes it: modulo 256 up to the largest int,
\* 255 (the low byte of the largest int) beyond it.
Mod256UpToMaxInt(k) ==
    IF mockIn.kind = "pasvText" /\ ExceedsMaxInt(mockIn.nums[k]) THEN 255
    ELSE Mod256(k)

\* What holds of every sextet: no error, and each number modulo 256 as long
\* as it fits an int.
PasvModulo256UpToMaxInt ==
    (ret.op = "parsePasvReply" /\ mockIn.kind \in {"pasv", "pasvText"}) =>
        /\ ret.err = NilErr
        /\ log[1].addr.ip = [k \in 1..4 |-> Mod256UpToMaxInt(k)]
        /\ log[1].addr.port = Mod256UpToMaxInt(5) * 256 + Mod256UpToMaxInt(6)
        /\ log[1].addr.port \in 0..65535

\* 256,255,256,47,256,47 has given 0.255.0.47 port 47.
PasvModulo256Witness ==
    /\ ret.op = "parsePasvReply" /\ mockIn.kind = "pasv"
    /\ mockIn.nums = <<256, 255, 256, 47, 256, 47>>
    /\ ret.err = NilErr
    /\ log[1].addr = [ip |-> <<0, 255, 0, 47>>, port |-> 47]

\* 1<<63 as p2, a multiple of 256, has given the port 255.
PasvBeyondMaxInt ==
    /\ ret.op = "parsePasvReply" /\ mockIn.kind = "pasvText"
    /\ \A k \in 1..5 : mockIn.nums[k] = <<"7">>
    /\ mockIn.nums[6] = Take(MaxInt, Len(MaxInt) - 1) \o <<"8">>
    /\ Low8(mockIn.nums[6]) = 0
    /\ ret.err = NilErr /\ log[1].addr.port = 7 * 256 + 255

====
